---- MODULE Spec2Model ----
(***************************************************************************)
(* Alert state machine of the gold trading assistant:                      *)
(* NotificationSystem (notification_system.py) with the collaborators it   *)
(* reads (GoldPriceMonitor.get_current_price, TechnicalAnalysis            *)
(* .get_signal_summary, NewsMonitor.get_high_impact_news).                  *)
(*                                                                         *)
(* Conventions.  Python's None is the empty tuple <<>> and a present value *)
(* v is <<v>>.  Prices are in cents and percentages are compared by cross  *)
(* multiplication, so the arithmetic is exact.  Impact scores are in       *)
(* tenths.  A notification keeps its 'type', 'timestamp' and 'data'        *)
(* fields; 'title' and 'message' are renderings of the same data and are   *)
(* left out.                                                               *)
(***************************************************************************)
EXTENDS Integers, Sequences, FiniteSets, TLC

VARIABLES
    last_price,             \* NotificationSystem.last_price: <<>> or <<cents>>
    last_signal,            \* NotificationSystem.last_signal: <<>> or <<type>>
    last_news_ids,          \* NotificationSystem.last_news_ids: set of ids
    notifications_history,  \* NotificationSystem.notifications_history
    history_is_list,        \* whether notifications_history holds a list
    history_file,           \* data/notification_history.json: state and text
    now,                    \* datetime.now(), in ticks
    adds,                   \* add_notification calls so far
    restarts,               \* constructions after the first so far
    write_failed,           \* events of this instance whose history write failed
    call,                   \* the last call: operation, input, state before, result
    observed,               \* per channel, what the latest observing call observed
    news_seen,              \* high-impact ids observed by any check_news so far
    ta_data,                \* TechnicalAnalysis.data, seen at one bar
    ta_signals,             \* what generate_signals() returned for it, once called
    ta_summary,             \* the last get_signal_summary() on it: inputs and result
    bars,                   \* the rows of a short frame, for the indicator functions
    last_check_time,        \* NotificationSystem.last_check_time
    pc,                     \* where run_monitoring_loop stands
    clock,                  \* the wall clock: date and minute of the day
    eod_report_time,        \* EOD_REPORT_TIME, as hour and minute
    monitor_current_price,  \* GoldPriceMonitor.current_price
    last_eod_report_date,   \* the loop's local last_eod_report_date
    pending,                \* events of the current step not yet added and sent
    cycle,                  \* the current iteration: its time, its fetch, what it did
    eod_generated,          \* dates of the scheduled reports generated, in order
    interrupted,            \* KeyboardInterrupt has been delivered
    reports,                \* /report commands handled so far
    on_demand,              \* dates on which a /report was answered with a report
    users,                  \* self.users['users']: the registered users, in order
    sending,                \* the send_notification call under way: type, next user, count
    sent,                   \* the delivery the last step made, if it made one
    switched_off            \* the (chat, type) pairs last switched off by a message

vars == <<last_price, last_signal, last_news_ids, notifications_history,
          history_is_list, history_file, now, adds, restarts, write_failed,
          call, observed, news_seen, ta_data, ta_signals, ta_summary, bars,
          last_check_time, pc, clock, eod_report_time,
          monitor_current_price, last_eod_report_date, pending, cycle, eod_generated, interrupted,
          reports, on_demand, users, sending, sent, switched_off>>

alertVars == <<last_price, last_signal, last_news_ids>>
storeVars == <<notifications_history, history_is_list, history_file, now,
               adds, restarts, write_failed>>
obsLog    == <<observed, news_seen>>
taVars    == <<ta_data, ta_signals, ta_summary, bars>>
botVars   == <<pc, clock, eod_report_time, monitor_current_price,
               last_eod_report_date,
               pending, cycle, eod_generated, interrupted, reports, on_demand>>

userVars   == <<users, sending, sent, switched_off>>

None == <<>>
Some(v) == <<v>>

(***************************************************************************)
(* Bounds of the model.                                                    *)
(***************************************************************************)
MaxPriceSteps == 3      \* prices 200.00, 200.50, ... in steps of 0.50
MaxNews == 2            \* rows of the fetched news frame
MaxAdds == 3            \* add_notification calls of one run of the model
MaxRestarts == 2        \* constructions after the first
MaxDays == 2            \* calendar dates the monitoring loop runs over
MaxReports == 1         \* /report commands of one run of the model

(***************************************************************************)
(* Program constants.                                                      *)
(***************************************************************************)
PriceChangeThresholdTenths == 5     \* price_change_threshold=0.5 (percent)
ImpactThresholdTenths == 7          \* get_high_impact_news(threshold=0.7)
HistoryLimit == 100                 \* notifications_history[-100:]

Abs(n) == IF n < 0 THEN -n ELSE n
Min(a, b) == IF a < b THEN a ELSE b

Prices == {20000 + 50 * k : k \in 0..MaxPriceSteps}
SignalTypes == {"BUY", "SELL", "NEUTRAL"}

(***************************************************************************)
(* check_price_movement                                                    *)
(***************************************************************************)
\* abs(percent_change) >= threshold with the comparison the wrong way strict
ThresholdStrict(price_change, previous_price) ==
    Abs(price_change) * 1000 > PriceChangeThresholdTenths * previous_price

\* percent_change = (price_change / last_price) * 100;
\* abs(percent_change) >= self.price_change_threshold, for last_price > 0:
\* |dp| / p * 100 >= t/10  <=>  |dp| * 1000 >= t * p
ThresholdReached(price_change, previous_price) ==
    Abs(price_change) * 1000 >= PriceChangeThresholdTenths * previous_price

\* the event built after the baseline has been replaced
PriceNotificationRebased(current_price, previous_price, timestamp) ==
    [type |-> "price", timestamp |-> timestamp,
     data |-> [current_price |-> current_price,
               previous_price |-> current_price,
               price_change |-> 0,
               percent_change |-> [num |-> 0, den |-> current_price]]]

\* The notification dict; percent_change = (price_change / last_price) * 100
\* is kept as the fraction num / den.
PriceNotification(current_price, previous_price, timestamp) ==
    [type |-> "price", timestamp |-> timestamp,
     data |-> [current_price |-> current_price,
               previous_price |-> previous_price,
               price_change |-> current_price - previous_price,
               percent_change |->
                   [num |-> (current_price - previous_price) * 100,
                    den |-> previous_price]]]

\* the baseline kept when the threshold did not fire
PriceMovementKeepBaseline(last, current) ==
    IF current = None THEN [ret |-> None, last_price |-> last]
    ELSE IF last = None THEN [ret |-> None, last_price |-> current]
    ELSE IF ThresholdReached(current[1] - last[1], last[1])
         THEN [ret |-> Some(PriceNotification(current[1], last[1], now)),
               last_price |-> current]
         ELSE [ret |-> None, last_price |-> last]

\* an event already on the first observation
PriceMovementNoSeed(last, current) ==
    IF current = None THEN [ret |-> None, last_price |-> last]
    ELSE IF last = None
         THEN [ret |-> Some(PriceNotification(current[1], current[1], now)),
               last_price |-> current]
    ELSE IF ThresholdReached(current[1] - last[1], last[1])
         THEN [ret |-> Some(PriceNotification(current[1], last[1], now)),
               last_price |-> current]
         ELSE [ret |-> None, last_price |-> current]

\* The method as a function of self.last_price and the price read from the
\* monitor: the value returned and the new self.last_price.
PriceMovement(last, current) ==
    IF current = None THEN [ret |-> None, last_price |-> last]
    ELSE IF last = None THEN [ret |-> None, last_price |-> current]
    ELSE IF ThresholdReached(current[1] - last[1], last[1])
         THEN [ret |-> Some(PriceNotification(current[1], last[1], now)),
               last_price |-> current]
         ELSE [ret |-> None, last_price |-> current]

\* the check that drops the baseline when the monitor has no price
check_price_movement_forgets(current_price) ==
    LET r == PriceMovement(last_price, current_price) IN
    /\ last_price' = IF current_price = None THEN None ELSE r.last_price
    /\ call' = [op |-> "check_price_movement", arg |-> current_price,
                pre |-> last_price, obs |-> observed.price, seen |-> {},
                ret |-> r.ret, io |-> "none"]
    /\ observed' = IF current_price = None THEN observed
                   ELSE [observed EXCEPT !.price = current_price]
    /\ UNCHANGED <<last_signal, last_news_ids, storeVars, news_seen>>

check_price_movement(current_price) ==
    LET r == PriceMovement(last_price, current_price) IN
    /\ last_price' = r.last_price
    /\ call' = [op |-> "check_price_movement", arg |-> current_price,
                pre |-> last_price, obs |-> observed.price, seen |-> {},
                ret |-> r.ret, io |-> "none"]
    /\ observed' = IF current_price = None THEN observed
                   ELSE [observed EXCEPT !.price = current_price]
    /\ UNCHANGED <<last_signal, last_news_ids, storeVars, news_seen>>

(***************************************************************************)
(* check_technical_signals                                                 *)
(***************************************************************************)
\* What the TechnicalAnalysis instance yields: generate_signals() gives no
\* frame, an empty frame or a frame; get_signal_summary() gives None or a
\* summary, of which the signal_type is kept.
SignalInputs ==
    {[signals |-> s, summary |-> None] : s \in {"none", "empty", "ok"}}
        \cup {[signals |-> "ok", summary |-> Some(t)] : t \in SignalTypes}

SignalNotification(signal_type, timestamp) ==
    [type |-> "signal", timestamp |-> timestamp,
     data |-> [signal_type |-> signal_type]]

\* an event on every change of type, NEUTRAL included
SignalChangedAny(signal_type, last) ==
    signal_type # last

\* if signal_type != self.last_signal and signal_type != "NEUTRAL"
SignalChanged(signal_type, last) ==
    signal_type # last /\ signal_type # "NEUTRAL"

\* last_signal updated only when an event is emitted
TechnicalSignalsKeepLast(last, ta) ==
    IF ta.signals # "ok" \/ ta.summary = None
    THEN [ret |-> None, last_signal |-> last]
    ELSE IF last = None THEN [ret |-> None, last_signal |-> ta.summary]
    ELSE IF SignalChanged(ta.summary[1], last[1])
         THEN [ret |-> Some(SignalNotification(ta.summary[1], now)),
               last_signal |-> ta.summary]
         ELSE [ret |-> None, last_signal |-> last]

\* The method as a function of self.last_signal and the analysis outcome.
TechnicalSignals(last, ta) ==
    IF ta.signals # "ok" \/ ta.summary = None
    THEN [ret |-> None, last_signal |-> last]
    ELSE IF last = None THEN [ret |-> None, last_signal |-> ta.summary]
    ELSE IF SignalChanged(ta.summary[1], last[1])
         THEN [ret |-> Some(SignalNotification(ta.summary[1], now)),
               last_signal |-> ta.summary]
         ELSE [ret |-> None, last_signal |-> ta.summary]

\* the check that also forgets the price baseline
check_technical_signals_resets_price(ta) ==
    LET r == TechnicalSignals(last_signal, ta) IN
    /\ last_signal' = r.last_signal
    /\ last_price' = None
    /\ call' = [op |-> "check_technical_signals", arg |-> Some(ta),
                pre |-> last_signal, obs |-> observed.signal, seen |-> {},
                ret |-> r.ret, io |-> "none"]
    /\ observed' = IF ta.signals # "ok" \/ ta.summary = None THEN observed
                   ELSE [observed EXCEPT !.signal = ta.summary]
    /\ UNCHANGED <<last_news_ids, storeVars, news_seen>>

check_technical_signals(ta) ==
    LET r == TechnicalSignals(last_signal, ta) IN
    /\ last_signal' = r.last_signal
    /\ call' = [op |-> "check_technical_signals", arg |-> Some(ta),
                pre |-> last_signal, obs |-> observed.signal, seen |-> {},
                ret |-> r.ret, io |-> "none"]
    /\ observed' = IF ta.signals # "ok" \/ ta.summary = None THEN observed
                   ELSE [observed EXCEPT !.signal = ta.summary]
    /\ UNCHANGED <<last_price, last_news_ids, storeVars, news_seen>>

(***************************************************************************)
(* check_news                                                              *)
(***************************************************************************)
Titles == {"Fed", "Gold"}
Sources == {"Kitco"}
Impacts == {ImpactThresholdTenths - 1, ImpactThresholdTenths,
            ImpactThresholdTenths + 1}
Articles == [title : Titles, source : Sources, impact : Impacts]

RECURSIVE SeqsUpTo(_, _)
SeqsUpTo(S, n) ==
    IF n = 0 THEN {<<>>}
    ELSE LET shorter == SeqsUpTo(S, n - 1) IN
         shorter \cup {Append(q, x) : q \in {t \in shorter : Len(t) = n - 1}, x \in S}

\* fetch_all_news(): the frame of fetched articles, empty when nothing came
NewsFrames == SeqsUpTo(Articles, MaxNews)

\* news_id = f"{article['title']}|{article['source']}"
NewsId(article) == article.title \o "|" \o article.source

AtOrAbove(article, threshold) == article.impact >= threshold

\* the filter with a strict comparison
HighImpactStrict(news, threshold) ==
    SelectSeq(news, LAMBDA a : a.impact > threshold)

\* self.news_data[self.news_data['impact'] >= threshold]
get_high_impact_news(news, threshold) ==
    SelectSeq(news, LAMBDA a : AtOrAbove(a, threshold))

IdsOf(frame) == {NewsId(frame[i]) : i \in 1..Len(frame)}

NewsNotification(article, timestamp) ==
    [type |-> "news", timestamp |-> timestamp,
     data |-> [title |-> article.title, source |-> article.source,
               impact |-> article.impact]]

RECURSIVE NewsNotifications(_, _)
\* for _, article in high_impact.iterrows(): if news_id in new_news_ids: append
NewsNotifications(high_impact, new_news_ids) ==
    IF high_impact = <<>> THEN <<>>
    ELSE LET rest == NewsNotifications(Tail(high_impact), new_news_ids) IN
         IF NewsId(Head(high_impact)) \in new_news_ids
         THEN <<NewsNotification(Head(high_impact), now)>> \o rest
         ELSE rest

\* a frame without high-impact rows empties the retained ids
NewsCheckForgets(last, news) ==
    LET high_impact == get_high_impact_news(news, ImpactThresholdTenths)
        current_news_ids == IdsOf(high_impact)
        new_news_ids == current_news_ids \ last
    IN  IF news = <<>> THEN [ret |-> <<>>, last_news_ids |-> last]
        ELSE IF high_impact = <<>> THEN [ret |-> <<>>, last_news_ids |-> {}]
        ELSE IF last = {} THEN [ret |-> <<>>, last_news_ids |-> current_news_ids]
        ELSE IF new_news_ids = {} THEN [ret |-> <<>>, last_news_ids |-> last]
        ELSE [ret |-> NewsNotifications(high_impact, new_news_ids),
              last_news_ids |-> current_news_ids]

\* The method as a function of self.last_news_ids and the fetched frame.
NewsCheck(last, news) ==
    LET high_impact == get_high_impact_news(news, ImpactThresholdTenths)
        current_news_ids == IdsOf(high_impact)
        new_news_ids == current_news_ids \ last
    IN  IF news = <<>> THEN [ret |-> <<>>, last_news_ids |-> last]
        ELSE IF high_impact = <<>> THEN [ret |-> <<>>, last_news_ids |-> last]
        ELSE IF last = {} THEN [ret |-> <<>>, last_news_ids |-> current_news_ids]
        ELSE IF new_news_ids = {} THEN [ret |-> <<>>, last_news_ids |-> last]
        ELSE [ret |-> NewsNotifications(high_impact, new_news_ids),
              last_news_ids |-> current_news_ids]

check_news(news) ==
    LET r == NewsCheck(last_news_ids, news)
        ids == {news[i].title \o "|" \o news[i].source :
                   i \in {j \in 1..Len(news) : news[j].impact >= ImpactThresholdTenths}}
    IN
    /\ last_news_ids' = r.last_news_ids
    /\ call' = [op |-> "check_news", arg |-> news,
                pre |-> Some(last_news_ids), obs |-> observed.news,
                seen |-> news_seen, ret |-> r.ret, io |-> "none"]
    /\ IF news = <<>>
       THEN UNCHANGED obsLog
       ELSE /\ observed' = [observed EXCEPT !.news = Some(ids)]
            /\ news_seen' = news_seen \cup ids
    /\ UNCHANGED <<last_price, last_signal, storeVars>>

(***************************************************************************)
(* TechnicalAnalysis.generate_signals                                      *)
(***************************************************************************)
RsiPeriod == 14             \* calculate_rsi(period=14)
MacdSlowPeriod == 26        \* calculate_macd(slow_period=26)
MacdSignalPeriod == 9       \* calculate_macd(signal_period=9)
ShortMaPeriod == 20         \* periods=[20, 50, 200]
MediumMaPeriod == 50
LongMaPeriod == 200
RsiOversold == 30           \* signals['RSI'] < 30
RsiOverbought == 70         \* signals['RSI'] > 70

NaN == <<>>

\* lengths of the bar series around the indicators' minimum lengths
SeriesLengths ==
    {RsiPeriod, RsiPeriod + 1,
     MacdSlowPeriod + MacdSignalPeriod - 1, MacdSlowPeriod + MacdSignalPeriod,
     LongMaPeriod - 1, LongMaPeriod, LongMaPeriod + 1}

\* bars (counted from 0) around the ends of the warmups, and the last bar
BarsOf(len) ==
    {i \in {0, RsiPeriod - 2, RsiPeriod - 1, ShortMaPeriod - 2, ShortMaPeriod - 1,
            MediumMaPeriod - 2, MediumMaPeriod - 1, len - 1} : i >= 0 /\ i < len}

\* The columns of one bar.  rolling(window=p).mean() is NaN on the first
\* p - 1 bars; the RSI is also NaN where avg_gain = avg_loss = 0; the
\* exponential means of the MACD are defined on every bar.
RowsOf_(len, bar) ==
    [bar : {bar},
     rsi : IF bar < RsiPeriod - 1 THEN {NaN}
           ELSE {NaN} \cup {Some(v) : v \in {RsiOversold - 10, RsiOversold, 50,
                                              RsiOverbought, RsiOverbought + 10}},
     macd : IF bar = 0 THEN {0} ELSE {-1, 0, 1},  \* both means start at the first close
     macd_signal : {0},
     ma20 : IF bar < ShortMaPeriod - 1 THEN {NaN} ELSE {Some(1), Some(2)},
     ma50 : IF bar < MediumMaPeriod - 1 THEN {NaN} ELSE {Some(1)}]

\* The columns of one bar of a strictly increasing close series: every
\* delta is a gain, so avg_loss = 0 and the RSI is 100 - 100 / (1 + inf) =
\* 100; the mean of the last 20 closes is above that of the last 50; the
\* MACD is above its signal line while the rise keeps its pace and below it
\* when the rise slows down.
IncreasingRows(len, bar) ==
    [bar : {bar},
     rsi : IF bar < RsiPeriod - 1 THEN {NaN} ELSE {Some(100)},
     macd : IF bar = 0 THEN {0} ELSE {-1, 1},
     macd_signal : {0},
     ma20 : IF bar < ShortMaPeriod - 1 THEN {NaN} ELSE {Some(2)},
     ma50 : IF bar < MediumMaPeriod - 1 THEN {NaN} ELSE {Some(1)}]

\* The columns of one bar of a constant close series: every delta is 0, so
\* avg_gain / avg_loss = 0 / 0 is NaN; every mean is the constant, so the
\* MACD and its signal line are 0 and MA20 = MA50.
ConstantRows(len, bar) ==
    [bar : {bar},
     rsi : {NaN},
     macd : {0},
     macd_signal : {0},
     ma20 : IF bar < ShortMaPeriod - 1 THEN {NaN} ELSE {Some(1)},
     ma50 : IF bar < MediumMaPeriod - 1 THEN {NaN} ELSE {Some(1)}]

Trends == {"mixed", "increasing", "constant"}

TrendRows(trend, len, bar) ==
    CASE trend = "mixed" -> RowsOf_(len, bar)
      [] trend = "increasing" -> IncreasingRows(len, bar)
      [] trend = "constant" -> ConstantRows(len, bar)

\* self.data: None, or a frame of len bars, the shape of its close series,
\* and the one row of it that is looked at
DataInputs ==
    {None} \cup
    UNION {{Some([len |-> x[1], trend |-> x[3], row |-> r]) :
               r \in TrendRows(x[3], x[1], x[2])} :
              x \in {y \in SeriesLengths \X (0..LongMaPeriod) \X Trends :
                        y[2] \in BarsOf(y[1])}}

\* calculate_rsi: None below period + 1 bars (the column otherwise)
calculate_rsi(data) ==
    IF data = None \/ data[1].len < RsiPeriod + 1 THEN None
    ELSE Some(data[1].row.rsi)

\* calculate_macd: None below slow_period + signal_period bars
calculate_macd(data) ==
    IF data = None \/ data[1].len < MacdSlowPeriod + MacdSignalPeriod THEN None
    ELSE Some([macd |-> data[1].row.macd,
               macd_signal |-> data[1].row.macd_signal])

\* calculate_moving_averages: None below max(periods) bars
calculate_moving_averages(data) ==
    IF data = None \/ data[1].len < LongMaPeriod THEN None
    ELSE Some([MA20 |-> data[1].row.ma20, MA50 |-> data[1].row.ma50])

\* signals['RSI_Signal'] = 0; 1 where RSI < 30; -1 where RSI > 70.
\* A comparison with NaN is false.
RSI_Signal(rsi) ==
    IF rsi # NaN /\ rsi[1] < RsiOversold THEN 1
    ELSE IF rsi # NaN /\ rsi[1] > RsiOverbought THEN -1
    ELSE 0

\* -1 on a tie
MACD_Cross_SignalNoNeutral(macd, macd_signal) ==
    IF macd > macd_signal THEN 1 ELSE -1

\* signals['MACD_Cross_Signal'] = 0; 1 where MACD > signal; -1 where <
MACD_Cross_Signal(macd, macd_signal) ==
    IF macd > macd_signal THEN 1
    ELSE IF macd < macd_signal THEN -1
    ELSE 0

\* signals['MA_Cross_Signal'] = 0; 1 where MA20 > MA50; -1 where <
MA_Cross_Signal(ma20, ma50) ==
    IF ma20 # NaN /\ ma50 # NaN /\ ma20[1] > ma50[1] THEN 1
    ELSE IF ma20 # NaN /\ ma50 # NaN /\ ma20[1] < ma50[1] THEN -1
    ELSE 0

\* generate_signals(): None, or the row of the signals frame at the bar.
\* The three signal columns always exist, so num_indicators is 3; Signal is
\* the fraction num / den.
SignalsOf(data) ==
    LET rsi == calculate_rsi(data)
        macd == calculate_macd(data)
        ma_dict == calculate_moving_averages(data)
    IN  IF data = None THEN None
        ELSE IF rsi = None \/ macd = None \/ ma_dict = None THEN None
        ELSE LET r == RSI_Signal(rsi[1])
                 m == MACD_Cross_Signal(macd[1].macd, macd[1].macd_signal)
                 a == MA_Cross_Signal(ma_dict[1].MA20, ma_dict[1].MA50)
             IN  Some([RSI_Signal |-> r, MACD_Cross_Signal |-> m,
                       MA_Cross_Signal |-> a,
                       Signal |-> [num |-> r + m + a, den |-> 3]])

SignalThresholdTenths == 2      \* signal_value > 0.2, signal_value < -0.2

\* a neutral zone up to 0.5
SignalTypeWide(signal) ==
    IF signal.num * 10 > 5 * signal.den THEN "BUY"
    ELSE IF signal.num * 10 < (-5) * signal.den THEN "SELL"
    ELSE "NEUTRAL"

\* BUY above 0.2, SELL below -0.2, NEUTRAL otherwise
SignalTypeOf(signal) ==
    IF signal.num * 10 > SignalThresholdTenths * signal.den THEN "BUY"
    ELSE IF signal.num * 10 < (-SignalThresholdTenths) * signal.den THEN "SELL"
    ELSE "NEUTRAL"

RECURSIVE MaxOf(_)
MaxOf(levels) ==
    IF Len(levels) = 1 THEN levels[1]
    ELSE LET m == MaxOf(Tail(levels)) IN IF levels[1] > m THEN levels[1] ELSE m

RECURSIVE MinOf(_)
MinOf(levels) ==
    IF Len(levels) = 1 THEN levels[1]
    ELSE LET m == MinOf(Tail(levels)) IN IF levels[1] < m THEN levels[1] ELSE m

Below(levels, price) == SelectSeq(levels, LAMBDA level : level < price)
Above(levels, price) == SelectSeq(levels, LAMBDA level : level > price)

\* what identify_support_resistance() hands to the summary: (None, None) or
\* two lists of levels, here around a last close of 2
SummaryClose == 2
LevelLists == {<<>>, <<2>>, <<0, 1>>, <<1, 0, 3>>, <<3, 4>>, <<4, 3, 1>>}
LevelInputs ==
    {None} \cup {Some([support |-> a, resistance |-> b]) :
                    a \in LevelLists, b \in LevelLists}

\* get_signal_summary(): None without data or signals; otherwise the type
\* and strength of the last bar's Signal and, if both lists of levels are
\* non-empty, the closest levels (None where no level qualifies).  A key
\* that is not in the summary is None here.
SignalSummary(data, levels, close) ==
    LET signals == SignalsOf(data) IN
    IF data = None \/ signals = None THEN None
    ELSE LET signal == signals[1].Signal
             found == /\ levels # None
                      /\ levels[1].support # <<>>
                      /\ levels[1].resistance # <<>>
             supports_below == Below(levels[1].support, close)
             resistances_above == Above(levels[1].resistance, close)
         IN  Some([price |-> close,
                   signal_type |-> SignalTypeOf(signal),
                   signal_strength |-> [num |-> Abs(signal.num), den |-> signal.den],
                   closest_support |->
                       IF found /\ supports_below # <<>>
                       THEN Some(MaxOf(supports_below)) ELSE None,
                   closest_resistance |->
                       IF found /\ resistances_above # <<>>
                       THEN Some(MinOf(resistances_above)) ELSE None])

\* TechnicalAnalysis.set_data
set_data(data) ==
    /\ ta_data' = data
    /\ ta_signals' = None
    /\ ta_summary' = None
    /\ UNCHANGED bars

generate_signals ==
    /\ ta_signals' = Some(SignalsOf(ta_data))
    /\ UNCHANGED <<ta_data, ta_summary, bars>>

\* get_signal_summary, on a frame looked at at its last bar (signals.iloc[-1])
get_signal_summary(levels, close) ==
    /\ ta_data # None => ta_data[1].row.bar = ta_data[1].len - 1
    /\ ta_summary' = Some([levels |-> levels, close |-> close,
                           ret |-> SignalSummary(ta_data, levels, close)])
    /\ UNCHANGED <<ta_data, ta_signals, bars>>

(***************************************************************************)
(* TechnicalAnalysis on a short frame, bar by bar                          *)
(*                                                                         *)
(* bars is self.data as a frame of High / Low / Close bars: None, or       *)
(* Some(frame). Series are sequences over the bars (bar 1 is iloc[0]); a   *)
(* value is NaN or an exact fraction [num, den].                           *)
(***************************************************************************)
MaxBars == 5
MaxWindow == 2
MaxPeriod == 3

BarValues == {[High |-> 2, Low |-> 1, Close |-> 1],
              [High |-> 3, Low |-> 1, Close |-> 2],
              [High |-> 3, Low |-> 2, Close |-> 3]}
Frames == SeqsUpTo(BarValues, MaxBars)
\* the frames a later set_data replaces the data with
FrameUpdates == {f \in Frames : Len(f) <= 1}
Windows == 1..MaxWindow
Periods == 1..MaxPeriod
\* periods lists: one period, or two with the larger one first
PeriodLists == {<<p>> : p \in Periods}
                   \cup {pq \in Periods \X Periods : pq[1] > pq[2]}
\* fast, slow and signal periods
MacdParams == {1} \X Periods \X {1, MaxPeriod}

Highs(f) == [i \in 1..Len(f) |-> f[i].High]
Lows(f) == [i \in 1..Len(f) |-> f[i].Low]
Closes(f) == [i \in 1..Len(f) |-> f[i].Close]

RECURSIVE Gcd(_, _)
Gcd(a, b) == IF b = 0 THEN a ELSE Gcd(b, a % b)
Lcm(a, b) == (a * b) \div Gcd(a, b)

\* the fraction num / den in lowest terms, den > 0; den = 0 is +-inf
Rat(num, den) ==
    IF den = 0 THEN [num |-> IF num < 0 THEN -1 ELSE 1, den |-> 0]
    ELSE LET s == IF den < 0 THEN -1 ELSE 1
             g == Gcd(Abs(num), Abs(den))
         IN  [num |-> (s * num) \div g, den |-> (s * den) \div g]
RatOf(n) == [num |-> n, den |-> 1]
RatSub(a, b) ==
    LET l == Lcm(a.den, b.den)
    IN  Rat(a.num * (l \div a.den) - b.num * (l \div b.den), l)

\* Series.rolling(window=period).mean(): NaN until period values are there
RECURSIVE RollingSum(_, _, _)
RollingSum(series, i, period) ==
    IF period = 0 THEN 0
    ELSE series[i] + RollingSum(series, i - 1, period - 1)
RollingMean(series, period) ==
    [i \in 1..Len(series) |->
        IF i < period THEN NaN
        ELSE Rat(RollingSum(series, i, period), period)]

\* Series.ewm(span=span, adjust=False).mean():
\* y[0] = x[0], y[t] = (1 - a) * y[t-1] + a * x[t] with a = 2 / (span + 1)
EwmStep(y, x, span) ==
    LET l == Lcm(y.den, x.den)
    IN  Rat((span - 1) * y.num * (l \div y.den) + 2 * x.num * (l \div x.den),
            (span + 1) * l)
\* the means from bar t on, y the mean at bar t - 1
RECURSIVE EwmFrom(_, _, _, _)
EwmFrom(series, span, t, y) ==
    IF t > Len(series) THEN <<>>
    ELSE LET v == EwmStep(y, series[t], span)
         IN  <<v>> \o EwmFrom(series, span, t + 1, v)
EwmMean(series, span) ==
    IF series = <<>> THEN <<>>
    ELSE <<series[1]>> \o EwmFrom(series, span, 2, series[1])

\* a - b, bar by bar
RECURSIVE SeriesSub(_, _)
SeriesSub(a, b) ==
    IF a = <<>> THEN <<>>
    ELSE <<RatSub(Head(a), Head(b))>> \o SeriesSub(Tail(a), Tail(b))

\* Close as fractions
RECURSIVE RatSeries(_)
RatSeries(series) ==
    IF series = <<>> THEN <<>>
    ELSE <<RatOf(Head(series))>> \o RatSeries(Tail(series))

\* delta = Close.diff() is NaN at the first bar; where(delta > 0, 0) puts 0
\* wherever the comparison is false, the NaN included
Gain(closes, i) ==
    IF i > 1 /\ closes[i] - closes[i - 1] > 0
    THEN closes[i] - closes[i - 1] ELSE 0

\* the losses kept with their sign
LossSigned(closes, i) ==
    IF i > 1 /\ closes[i] - closes[i - 1] < 0
    THEN closes[i] - closes[i - 1] ELSE 0

\* loss = -delta.where(delta < 0, 0)
Loss(closes, i) ==
    -(IF i > 1 /\ closes[i] - closes[i - 1] < 0
      THEN closes[i] - closes[i - 1] ELSE 0)

\* rs = avg_gain / avg_loss in floating point: 0 / 0 is NaN, x / 0 is inf
RelativeStrength(avg_gain, avg_loss) ==
    IF avg_gain = NaN \/ avg_loss = NaN THEN NaN
    ELSE IF avg_gain.num = 0 /\ avg_loss.num = 0 THEN NaN
    ELSE Rat(avg_gain.num * avg_loss.den, avg_loss.num * avg_gain.den)

\* rsi = 100 - (100 / (1 + rs))
RsiOf(rs) ==
    IF rs = NaN THEN NaN
    ELSE IF rs.den = 0 THEN RatOf(100)
    ELSE IF rs.num + rs.den = 0 THEN Rat(-1, 0)
    ELSE Rat(100 * (rs.num + rs.den) - 100 * rs.den, rs.num + rs.den)

\* calculate_rsi(period): None, or the RSI series
Rsi(data, period) ==
    IF data = None \/ Len(data[1]) < period + 1 THEN None
    ELSE LET closes == Closes(data[1])
             gain == [i \in 1..Len(closes) |-> Gain(closes, i)]
             loss == [i \in 1..Len(closes) |-> Loss(closes, i)]
             avg_gain == RollingMean(gain, period)
             avg_loss == RollingMean(loss, period)
         IN  Some([i \in 1..Len(closes) |->
                      RsiOf(RelativeStrength(avg_gain[i], avg_loss[i]))])

\* the guard without the signal period
MacdSlowOnly(data, fast_period, slow_period, signal_period) ==
    IF data = None \/ Len(data[1]) < slow_period THEN None
    ELSE LET closes == RatSeries(Closes(data[1]))
             fast_ema == EwmMean(closes, fast_period)
             slow_ema == EwmMean(closes, slow_period)
             macd_line == SeriesSub(fast_ema, slow_ema)
             signal_line == EwmMean(macd_line, signal_period)
         IN  Some([macd_line |-> macd_line,
                   signal_line |-> signal_line,
                   histogram |-> SeriesSub(macd_line, signal_line)])

\* calculate_macd(fast, slow, signal): None (for None, None, None), or the
\* three series
Macd(data, fast_period, slow_period, signal_period) ==
    IF data = None \/ Len(data[1]) < slow_period + signal_period THEN None
    ELSE LET closes == RatSeries(Closes(data[1]))
             fast_ema == EwmMean(closes, fast_period)
             slow_ema == EwmMean(closes, slow_period)
             macd_line == SeriesSub(fast_ema, slow_ema)
             signal_line == EwmMean(macd_line, signal_period)
         IN  Some([macd_line |-> macd_line,
                   signal_line |-> signal_line,
                   histogram |-> SeriesSub(macd_line, signal_line)])

\* max(periods)
MaxPeriodOf(periods) == MaxOf(periods)

\* calculate_moving_averages(periods): None, or ma_dict by period
MovingAverages(data, periods) ==
    IF data = None \/ Len(data[1]) < MaxPeriodOf(periods) THEN None
    ELSE Some([period \in {periods[k] : k \in 1..Len(periods)} |->
                  RollingMean(Closes(data[1]), period)])

\* a strict minimum only
LocalMinimumStrict(lows, window, i) ==
    /\ \A j \in 1..window : lows[i] < lows[i - j]
    /\ \A j \in 1..window : lows[i] < lows[i + j]

\* all(lows[i] <= lows[i-j] ...) and all(lows[i] <= lows[i+j] ...)
LocalMinimum(lows, window, i) ==
    /\ \A j \in 1..window : lows[i] <= lows[i - j]
    /\ \A j \in 1..window : lows[i] <= lows[i + j]

\* all(highs[i] >= highs[i-j] ...) and all(highs[i] >= highs[i+j] ...)
LocalMaximum(highs, window, i) ==
    /\ \A j \in 1..window : highs[i] >= highs[i - j]
    /\ \A j \in 1..window : highs[i] >= highs[i + j]

\* for i in range(window, len(lows) - window): the bars from i on, in scan
\* order (bar i here is index i - 1 there)
RECURSIVE SupportIndices(_, _, _)
SupportIndices(lows, window, i) ==
    IF i > Len(lows) - window THEN <<>>
    ELSE (IF LocalMinimum(lows, window, i) THEN <<i>> ELSE <<>>)
             \o SupportIndices(lows, window, i + 1)

RECURSIVE ResistanceIndices(_, _, _)
ResistanceIndices(highs, window, i) ==
    IF i > Len(highs) - window THEN <<>>
    ELSE (IF LocalMaximum(highs, window, i) THEN <<i>> ELSE <<>>)
             \o ResistanceIndices(highs, window, i + 1)

\* identify_support_resistance(window): None (for None, None), or the two
\* lists of levels
SupportResistance(data, window) ==
    IF data = None \/ Len(data[1]) < window * 2 THEN None
    ELSE LET highs == Highs(data[1])
             lows == Lows(data[1])
             support_indices == SupportIndices(lows, window, window + 1)
             resistance_indices == ResistanceIndices(highs, window, window + 1)
         IN  Some([support_levels |->
                       [k \in 1..Len(support_indices) |->
                           lows[support_indices[k]]],
                   resistance_levels |->
                       [k \in 1..Len(resistance_indices) |->
                           highs[resistance_indices[k]]]])

IndicatorCall(op, arg, ret) ==
    [op |-> op, arg |-> arg, pre |-> None, obs |-> None, seen |-> {},
     ret |-> ret, io |-> "none"]

\* TechnicalAnalysis.set_data on the frame
frame_set_data(f) ==
    /\ bars' = Some(f)
    /\ call' = IndicatorCall("set_data", Len(f), None)
    /\ UNCHANGED <<ta_data, ta_signals, ta_summary>>

frame_calculate_rsi(period) ==
    /\ call' = IndicatorCall("calculate_rsi", period, Rsi(bars, period))
    /\ UNCHANGED taVars

frame_calculate_macd(fast_period, slow_period, signal_period) ==
    /\ call' = IndicatorCall("calculate_macd",
                             [fast_period |-> fast_period,
                              slow_period |-> slow_period,
                              signal_period |-> signal_period],
                             Macd(bars, fast_period, slow_period,
                                  signal_period))
    /\ UNCHANGED taVars

frame_calculate_moving_averages(periods) ==
    /\ call' = IndicatorCall("calculate_moving_averages", periods,
                             MovingAverages(bars, periods))
    /\ UNCHANGED taVars

identify_support_resistance(window) ==
    /\ call' = IndicatorCall("identify_support_resistance", window,
                             SupportResistance(bars, window))
    /\ UNCHANGED taVars

(***************************************************************************)
(* TelegramBot: the clock, the report and the loop's exits                 *)
(***************************************************************************)
DefaultEodHour == 16        \* EOD_REPORT_TIME default '16:00'
DefaultEodMinute == 0
CheckIntervalMinutes == 15  \* CHECK_INTERVAL default 900 seconds

\* the configured report time: the default, and one later in the same hour
EodReportTimes ==
    {[hour |-> DefaultEodHour, minute |-> m] : m \in {DefaultEodMinute, 30}}

\* times of day a poll can fall on: twice in the report hour, and after it
TimesOfDay ==
    {DefaultEodHour * 60, DefaultEodHour * 60 + 30,
     (DefaultEodHour + 1) * 60 + 10}
Clocks == [day : 1..MaxDays, minute : TimesOfDay]
Midnight == [day |-> 1, minute |-> 0]
Stamp(t) == t.day * 1440 + t.minute
Hour(t) == t.minute \div 60
Minute(t) == t.minute % 60

\* what fetch_live_data returns: None, or a frame, of which the last close
\* is kept
FetchedData == {None, Some(20000)}
LoopSignalInputs ==
    {[signals |-> "none", summary |-> None],
     [signals |-> "ok", summary |-> Some("BUY")]}
LoopNewsFrames ==
    {<<>>,
     <<[title |-> "Fed", source |-> "Kitco", impact |-> ImpactThresholdTenths]>>}

\* the report due whenever the time of day matches, once a day or not
EodDueAnyDate(current_time, eod, last_date) ==
    /\ Hour(current_time) = eod.hour
    /\ Minute(current_time) >= eod.minute

\* the report due in the exact minute only
EodDueExactMinute(current_time, eod, last_date) ==
    /\ Hour(current_time) = eod.hour
    /\ Minute(current_time) = eod.minute
    /\ (last_date = None \/ current_time.day > last_date[1])

\* current_time.hour == eod_hour and current_time.minute >= eod_minute and
\* (last_eod_report_date is None or current_time.date() > last_eod_report_date)
EodDue(current_time, eod, last_date) ==
    /\ Hour(current_time) = eod.hour
    /\ Minute(current_time) >= eod.minute
    /\ (last_date = None \/ current_time.day > last_date[1])

\* NotificationSystem.generate_eod_report: the report, from the monitor's
\* current price and the date; no attribute of the NotificationSystem is
\* read or assigned
generate_eod_report(price, date, timestamp) ==
    [type |-> "eod", timestamp |-> timestamp,
     data |-> [date |-> date, current_price |-> price]]

\* a /report marks the date as reported
ReportCommandMarksDate(last_date, date) == Some(date)

\* report_command has no access to the loop's last_eod_report_date
AfterReportCommand(last_date, date) == last_date

\* every exception ends the loop
LoopAfterStops(exception) == "stopped"

\* except Exception: log, then sleep and poll again; a KeyboardInterrupt
\* passes it and ends the loop
LoopAfter(exception) ==
    IF exception = "Exception" THEN "sleep" ELSE "stopped"

NoCycle == [time |-> Midnight, data |-> None, pre |-> None, raised |-> FALSE,
            after_failure |-> FALSE, eod |-> None]

\* the retained state of the NotificationSystem
AlertState ==
    <<last_price, last_signal, last_news_ids, last_check_time,
      notifications_history>>

(***************************************************************************)
(* Notification history and its file                                       *)
(***************************************************************************)
\* json.dump / json.load of one notification: the object as written, a
\* tuple of its members, and the dict read back from it
JsonEncode(notification) ==
    <<notification.type, notification.timestamp, notification.data>>
JsonDecode(text) ==
    [type |-> text[1], timestamp |-> text[2], data |-> text[3]]
JsonDump(list) == [i \in 1..Len(list) |-> JsonEncode(list[i])]
JsonLoad(text) == [i \in 1..Len(text) |-> JsonDecode(text[i])]

\* A signal notification carries the summary as its data, and the summary's
\* 'timestamp' is the last index of the frame, which json cannot encode.
JsonSerializable(notification) == notification.type # "signal"

\* the first 100 entries instead of the last
FirstHundred(list) ==
    SubSeq(list, 1, Min(Len(list), HistoryLimit))

\* self.notifications_history[-100:]
LastHundred(list) ==
    SubSeq(list, Len(list) - Min(Len(list), HistoryLimit) + 1, Len(list))

FileMissing == [state |-> "missing", text |-> <<>>]
FileCorrupt == [state |-> "corrupt", text |-> <<>>]     \* not valid JSON
FileNotAList == [state |-> "notalist", text |-> <<>>]   \* a JSON object or string
FileScalar == [state |-> "scalar", text |-> <<>>]       \* a JSON number, null, true
FileList(list) == [state |-> "list", text |-> JsonDump(list)]

\* How the write of _save_notification_history can end: "ok"; the open
\* fails and the file is as it was; the dump fails after the open has
\* truncated the file.  The dump of a list holding an entry json cannot
\* encode always fails.
WriteOutcomes(list) ==
    IF \A i \in 1..Len(list) : JsonSerializable(list[i])
    THEN {"ok", "open_fails", "dump_fails"}
    ELSE {"open_fails", "dump_fails"}

\* only the newest entry written
SavedFileNewestOnly(file, list, write) ==
    CASE write = "ok" -> FileList(<<list[Len(list)]>>)
      [] write = "open_fails" -> file
      [] write = "dump_fails" -> FileCorrupt

\* _save_notification_history: the file after the write
SavedFile(file, list, write) ==
    CASE write = "ok" -> FileList(LastHundred(list))
      [] write = "open_fails" -> file
      [] write = "dump_fails" -> FileCorrupt

\* _load_notification_history: the history after construction.  No file or
\* an exception (unreadable, invalid JSON, or len() of a loaded number, null
\* or boolean in the log line) leaves the empty list; any other loaded value
\* is kept as it is, a JSON object or string included.
LoadedHistory(file) ==
    CASE file.state = "missing" -> [list |-> <<>>, is_list |-> TRUE]
      [] file.state = "corrupt" -> [list |-> <<>>, is_list |-> TRUE]
      [] file.state = "notalist" -> [list |-> <<>>, is_list |-> FALSE]
      [] file.state = "scalar" -> [list |-> <<>>, is_list |-> TRUE]
      [] file.state = "list" -> [list |-> JsonLoad(file.text), is_list |-> TRUE]

\* the in-memory list cut to its last 100 entries on every append
AppendedCapped(list, notification) ==
    LastHundred(Append(list, notification))

\* self.notifications_history.append(notification)
Appended(list, notification) ==
    Append(list, notification)

add_notification(notification, write) ==
    /\ adds < MaxAdds
    /\ adds' = adds + 1
    /\ now' = now + 1
    /\ IF notification = None \/ ~history_is_list
       THEN /\ call' = [op |-> "add_notification", arg |-> notification,
                        pre |-> Some(notifications_history), obs |-> None,
                        seen |-> {}, ret |-> Some(FALSE), io |-> "none"]
            /\ UNCHANGED <<notifications_history, history_file, write_failed>>
       ELSE LET list == Appended(notifications_history, notification[1]) IN
            /\ write \in WriteOutcomes(LastHundred(list))
            /\ notifications_history' = list
            /\ history_file' = SavedFile(history_file, list, write)
            /\ write_failed' = IF write = "ok" THEN write_failed
                               ELSE write_failed \cup {notification[1]}
            /\ call' = [op |-> "add_notification", arg |-> notification,
                        pre |-> Some(notifications_history), obs |-> None,
                        seen |-> {}, ret |-> Some(TRUE), io |-> write]
    /\ UNCHANGED <<alertVars, history_is_list, restarts, obsLog>>

\* list[start:] in Python: a negative start counts from the end and stops
\* at the first entry; -0 is 0, the first entry
SliceFrom(list, start) ==
    LET n == Len(list)
        first == IF start < 0
                 THEN (IF start + n < 0 THEN 0 ELSE start + n)
                 ELSE (IF start > n THEN n ELSE start)
    IN  SubSeq(list, first + 1, n)

\* the limits asked for
RecentLimits == 0..(MaxAdds + 1)

\* self.notifications_history[-limit:] if self.notifications_history else []
RecentNotifications(list, limit) ==
    IF list # <<>> THEN SliceFrom(list, -limit) ELSE <<>>

\* NotificationSystem.get_recent_notifications
get_recent_notifications(limit) ==
    /\ call' = [op |-> "get_recent_notifications", arg |-> limit,
                pre |-> Some(notifications_history), obs |-> None,
                seen |-> {},
                ret |-> RecentNotifications(notifications_history, limit),
                io |-> "none"]
    /\ UNCHANGED <<alertVars, storeVars, obsLog>>

\* the notifications handed to add_notification at time t
Submissions(t) ==
    {None,
     Some(PriceNotification(20100, 20000, t)),
     Some(SignalNotification("BUY", t))}

(***************************************************************************)
(* TelegramBot: the registered users, their settings and the delivery      *)
(*                                                                         *)
(* A text is the set of the keywords it contains ('price' in text, ...).   *)
(* send_notification runs in the loop's thread, the handlers in the        *)
(* dispatcher's: a handler may run between two users of one send.          *)
(***************************************************************************)
ChatIds == {1, 2}
NotificationTypes == {"price", "signal", "news", "eod"}
SettingKeys == {"price_alerts", "signal_alerts", "news_alerts", "eod_reports"}
Texts == {{"price", "on"}, {"price", "off"}, {"signal", "on"},
          {"signal", "off"}, {"news", "on"}, {"news", "off"},
          {"eod", "on"}, {"eod", "off"}, {"price", "news", "on", "off"}, {}}

\* the setting send_notification tests for a notification type
SettingOf(type) ==
    CASE type = "price" -> "price_alerts"
      [] type = "signal" -> "signal_alerts"
      [] type = "news" -> "news_alerts"
      [] type = "eod" -> "eod_reports"

\* the keyword handle_message looks for to change a setting
KeywordOf(key) ==
    CASE key = "price_alerts" -> "price"
      [] key = "signal_alerts" -> "signal"
      [] key = "news_alerts" -> "news"
      [] key = "eod_reports" -> "eod"

\* register_user: every setting on
DefaultSettings == [key \in SettingKeys |-> TRUE]

\* for u in self.users['users']: if u['chat_id'] == chat_id: the position of
\* the first such user, 0 for none
RECURSIVE FindUser(_, _, _)
FindUser(list, chat_id, i) ==
    IF i > Len(list) THEN 0
    ELSE IF list[i].chat_id = chat_id THEN i
    ELSE FindUser(list, chat_id, i + 1)

\* register_user(chat_id): the list unchanged for a known chat
RegisterUser(list, chat_id) ==
    IF FindUser(list, chat_id, 1) # 0 THEN list
    ELSE Append(list, [chat_id |-> chat_id, settings |-> DefaultSettings])

\* handle_message: a setting is changed when its keyword and 'on' or 'off'
SettingChanged(key, text) ==
    KeywordOf(key) \in text /\ ("on" \in text \/ "off" \in text)

\* user['settings'][key] = 'on' in text
SettingsAfter(settings, text) ==
    [key \in SettingKeys |->
        IF SettingChanged(key, text) THEN "on" \in text ELSE settings[key]]

\* the filter without the test for eod
WantsButEod(settings, type) ==
    /\ ~(type = "price" /\ ~settings["price_alerts"])
    /\ ~(type = "signal" /\ ~settings["signal_alerts"])
    /\ ~(type = "news" /\ ~settings["news_alerts"])

\* send_notification: the four tests that skip a user
Wants(settings, type) ==
    /\ ~(type = "price" /\ ~settings["price_alerts"])
    /\ ~(type = "signal" /\ ~settings["signal_alerts"])
    /\ ~(type = "news" /\ ~settings["news_alerts"])
    /\ ~(type = "eod" /\ ~settings["eod_reports"])

\* TelegramBot.start_command
start_command(chat_id) ==
    /\ users' = RegisterUser(users, chat_id)
    /\ sent' = None
    /\ UNCHANGED <<sending, switched_off>>

\* TelegramBot.handle_message
handle_message(chat_id, text) ==
    LET i == FindUser(users, chat_id, 1)
    IN  /\ users' = IF i = 0 THEN users
                    ELSE [users EXCEPT
                             ![i].settings = SettingsAfter(@, text)]
        /\ switched_off' =
               IF i = 0 THEN switched_off
               ELSE (switched_off
                        \ {<<chat_id, type>> : type \in
                              {t \in NotificationTypes :
                                  SettingChanged(SettingOf(t), text)}})
                    \cup {<<chat_id, type>> : type \in
                              {t \in NotificationTypes :
                                  /\ SettingChanged(SettingOf(t), text)
                                  /\ ~("on" \in text)}}
        /\ sent' = None
        /\ UNCHANGED sending

\* TelegramBot.send_notification: the call starts
send_notification(type) ==
    /\ sending = None
    /\ sending' = Some([type |-> type, i |-> 1, count |-> 0])
    /\ sent' = None
    /\ UNCHANGED <<users, switched_off>>

\* send_notification: the next user of the loop; the send goes through or
\* raises
send_next(delivered) ==
    /\ sending # None
    /\ sending[1].i <= Len(users)
    /\ LET user == users[sending[1].i]
           type == sending[1].type
           goes == Wants(user.settings, type) /\ delivered
       IN  /\ sent' = IF goes
                      THEN Some([chat_id |-> user.chat_id, type |-> type,
                                 setting |-> user.settings[SettingOf(type)],
                                 refused |->
                                     <<user.chat_id, type>> \in switched_off])
                      ELSE None
           /\ sending' = Some([sending[1] EXCEPT
                                  !.i = @ + 1,
                                  !.count = IF goes THEN @ + 1 ELSE @])
    /\ UNCHANGED <<users, switched_off>>

\* send_notification: return count
send_return ==
    /\ sending # None
    /\ sending[1].i > Len(users)
    /\ sending' = None
    /\ sent' = None
    /\ UNCHANGED <<users, switched_off>>

(***************************************************************************)
(* NotificationSystem.generate_eod_report on what its collaborators return *)
(***************************************************************************)
\* get_current_price(), get_price_change(), get_signal_summary() (None when
\* generate_signals gave None), analyze_news_sentiment(), get_latest_news(),
\* plot_price_chart()
ReportPrices == {None, Some(20000)}
ReportChanges == {None, Some([change |-> -5, percent_change |-> -1]),
                  Some([change |-> 5, percent_change |-> 1])}
ReportSummaries ==
    {None} \cup {Some([signal_type |-> t, closest_support |-> c]) :
                    t \in {"BUY", "SELL", "NEUTRAL"}, c \in {None, Some(1)}}
ReportSentiments ==
    {None} \cup {Some([sentiment |-> t]) :
                    t \in {"Bullish", "Bearish", "Neutral"}}
ReportHeadlines == {<<>>, <<"Fed">>}
ReportCharts == {None, Some("charts/eod_price.png")}
ReportInputs ==
    [current_price : ReportPrices, change : ReportChanges,
     summary : ReportSummaries, sentiment : ReportSentiments,
     latest_news : ReportHeadlines, price_chart : ReportCharts]

\* f"{value:.2f}" raises TypeError on None
FormatRaises(value) == value = None
Formatted(value) == <<"%.2f", value[1]>>

\* the forecast section of _format_eod_report
Forecast(summary, sentiment) ==
    LET technical == IF summary = None THEN "Neutral"
                     ELSE IF summary[1].signal_type = "BUY" THEN "Bullish"
                     ELSE IF summary[1].signal_type = "SELL" THEN "Bearish"
                     ELSE "Neutral"
    IN  IF sentiment = None THEN technical
        ELSE IF sentiment[1].sentiment = "Bullish"
             THEN (IF technical = "Bearish" THEN "Mixed" ELSE "Bullish")
        ELSE IF sentiment[1].sentiment = "Bearish"
             THEN (IF technical = "Bullish" THEN "Mixed" ELSE "Bearish")
        ELSE technical

\* _format_eod_report: None when the price line raises, or the message by
\* its sections
FormatEodReport(in) ==
    IF FormatRaises(in.current_price) THEN None
    ELSE Some([price |-> Formatted(in.current_price),
               change |-> IF in.change = None THEN None
                          ELSE Some([direction |-> IF in.change[1].change > 0
                                                   THEN "up" ELSE "down",
                                     change |-> Abs(in.change[1].change),
                                     percent_change |->
                                         Abs(in.change[1].percent_change)]),
               technical |-> IF in.summary = None THEN None
                             ELSE Some(in.summary[1].signal_type),
               sentiment |-> IF in.sentiment = None THEN None
                             ELSE Some(in.sentiment[1].sentiment),
               headlines |-> in.latest_news,
               forecast |-> Forecast(in.summary, in.sentiment)])

\* generate_eod_report: raises with the message, or returns the report
EodReport(in, date, timestamp) ==
    IF FormatEodReport(in) = None THEN [raises |-> TRUE, report |-> None]
    ELSE [raises |-> FALSE,
          report |->
              Some([type |-> "eod", timestamp |-> timestamp,
                    message |-> FormatEodReport(in)[1],
                    data |-> [date |-> date,
                              current_price |-> in.current_price,
                              price_change |->
                                  IF in.change = None THEN None
                                  ELSE Some(in.change[1].change),
                              percent_change |->
                                  IF in.change = None THEN None
                                  ELSE Some(in.change[1].percent_change),
                              signal |->
                                  IF in.summary = None THEN None
                                  ELSE Some(in.summary[1].signal_type),
                              sentiment |->
                                  IF in.sentiment = None THEN None
                                  ELSE Some(in.sentiment[1].sentiment),
                              price_chart |-> in.price_chart]])]

\* a call of generate_eod_report; no attribute of the NotificationSystem is
\* assigned
eod_report(in) ==
    /\ call' = [op |-> "generate_eod_report", arg |-> in, pre |-> None,
                obs |-> None, seen |-> {},
                ret |-> EodReport(in, clock.day, now), io |-> "none"]
    /\ UNCHANGED <<alertVars, storeVars, obsLog, taVars, botVars, userVars,
                   last_check_time>>

(***************************************************************************)
(* Construction                                                            *)
(***************************************************************************)
NoCall == [op |-> "init", arg |-> None, pre |-> None, obs |-> None,
           seen |-> {}, ret |-> None, io |-> "none"]
NothingObserved == [price |-> None, signal |-> None, news |-> None]

\* TechnicalAnalysis.__init__(data=None)
TaInit ==
    /\ ta_data = None
    /\ ta_signals = None
    /\ ta_summary = None
    /\ bars = <<>>

\* TelegramBot.__init__ and the start of run_monitoring_loop
BotInit ==
    /\ pc = "start"
    /\ clock = Midnight
    /\ monitor_current_price = None
    /\ last_eod_report_date = None
    /\ pending = <<>>
    /\ cycle = NoCycle
    /\ eod_generated = <<>>
    /\ interrupted = FALSE
    /\ reports = 0
    /\ on_demand = {}
    /\ users = <<>>
    /\ sending = None
    /\ sent = None
    /\ switched_off = {}

\* NotificationSystem.__init__ with no history file
NotifierInit ==
    /\ last_price = None
    /\ last_signal = None
    /\ last_news_ids = {}
    /\ last_check_time = None
    /\ history_file = FileMissing
    /\ notifications_history = <<>>
    /\ history_is_list = TRUE
    /\ now = 1
    /\ adds = 0
    /\ restarts = 0
    /\ write_failed = {}
    /\ call = NoCall
    /\ observed = NothingObserved
    /\ news_seen = {}

Init ==
    /\ NotifierInit
    /\ TaInit
    /\ BotInit
    /\ eod_report_time = [hour |-> DefaultEodHour, minute |-> DefaultEodMinute]

\* NotificationSystem.__init__: a new instance, its history read from the
\* file the previous one left
construct ==
    LET loaded == LoadedHistory(history_file) IN
    /\ restarts < MaxRestarts
    /\ restarts' = restarts + 1
    /\ last_price' = None
    /\ last_signal' = None
    /\ last_news_ids' = {}
    /\ notifications_history' = loaded.list
    /\ history_is_list' = loaded.is_list
    /\ write_failed' = {}
    /\ last_check_time' = None
    /\ observed' = NothingObserved
    /\ news_seen' = {}
    /\ call' = [op |-> "construct", arg |-> None,
                pre |-> Some(notifications_history), obs |-> None,
                seen |-> {}, ret |-> None,
                io |-> IF call.op = "add_notification" THEN call.io ELSE "none"]
    /\ UNCHANGED <<history_file, now, adds>>

\* the history a run of the program that appended k price notifications left
StoredList(k) == [i \in 1..k |-> PriceNotification(20100, 20000, i)]

StoredFiles ==
    {FileMissing, FileCorrupt, FileNotAList, FileScalar}
        \cup {FileList(StoredList(k)) : k \in 0..HistoryLimit}

\* construction over any file an earlier run, or anything else, left
InitStored ==
    /\ last_price = None
    /\ last_signal = None
    /\ last_news_ids = {}
    /\ history_file \in StoredFiles
    /\ notifications_history = LoadedHistory(history_file).list
    /\ history_is_list = LoadedHistory(history_file).is_list
    /\ now = Len(notifications_history) + 1
    /\ adds = 0
    /\ restarts = 0
    /\ write_failed = {}
    /\ call = NoCall
    /\ observed = NothingObserved
    /\ news_seen = {}
    /\ last_check_time = None
    /\ TaInit
    /\ BotInit
    /\ eod_report_time = [hour |-> DefaultEodHour, minute |-> DefaultEodMinute]

Next ==
    \/ /\ \E p \in {None} \cup {Some(x) : x \in Prices} : check_price_movement(p)
       /\ UNCHANGED <<taVars, userVars, botVars, last_check_time>>
    \/ /\ \E ta \in SignalInputs : check_technical_signals(ta)
       /\ UNCHANGED <<taVars, userVars, botVars, last_check_time>>
    \/ /\ \E news \in NewsFrames : check_news(news)
       /\ UNCHANGED <<taVars, userVars, botVars, last_check_time>>

Spec == Init /\ [][Next]_vars

NextHistory ==
    \/ /\ \E notification \in Submissions(now),
             write \in {"ok", "open_fails", "dump_fails"} :
             add_notification(notification, write)
       /\ UNCHANGED <<taVars, userVars, botVars, last_check_time>>
    \/ construct /\ UNCHANGED <<taVars, userVars, botVars>>

SpecHistory == InitStored /\ [][NextHistory]_vars

\* the analysis of one frame after another
InitSignals ==
    /\ NotifierInit
    /\ ta_data \in DataInputs
    /\ ta_signals = None
    /\ ta_summary = None
    /\ bars = <<>>
    /\ BotInit
    /\ eod_report_time = [hour |-> DefaultEodHour, minute |-> DefaultEodMinute]

\* the frames a later fetch replaces the data with
NextFrames == {data \in DataInputs \ {None} : data[1].trend = "constant"}

NextSignals ==
    \/ /\ \E data \in NextFrames : set_data(data)
       /\ UNCHANGED <<alertVars, storeVars, call, obsLog, botVars, userVars, last_check_time>>
    \/ /\ generate_signals
       /\ UNCHANGED <<alertVars, storeVars, call, obsLog, botVars, userVars, last_check_time>>
    \/ /\ \E levels \in LevelInputs : get_signal_summary(levels, SummaryClose)
       /\ UNCHANGED <<alertVars, storeVars, call, obsLog, botVars, userVars, last_check_time>>

SpecSignals == InitSignals /\ [][NextSignals]_vars

\* the indicators called one after another, on any short frame
InitFrame ==
    /\ NotifierInit
    /\ ta_data = None
    /\ ta_signals = None
    /\ ta_summary = None
    /\ bars \in {None} \cup {Some(f) : f \in Frames}
    /\ BotInit
    /\ eod_report_time = [hour |-> DefaultEodHour, minute |-> DefaultEodMinute]

NextFrame ==
    \/ /\ \E f \in FrameUpdates : frame_set_data(f)
       /\ UNCHANGED <<alertVars, storeVars, obsLog, botVars, userVars, last_check_time>>
    \/ /\ \E period \in Periods : frame_calculate_rsi(period)
       /\ UNCHANGED <<alertVars, storeVars, obsLog, botVars, userVars, last_check_time>>
    \/ /\ \E p \in MacdParams : frame_calculate_macd(p[1], p[2], p[3])
       /\ UNCHANGED <<alertVars, storeVars, obsLog, botVars, userVars, last_check_time>>
    \/ /\ \E periods \in PeriodLists : frame_calculate_moving_averages(periods)
       /\ UNCHANGED <<alertVars, storeVars, obsLog, botVars, userVars, last_check_time>>
    \/ /\ \E window \in Windows : identify_support_resistance(window)
       /\ UNCHANGED <<alertVars, storeVars, obsLog, botVars, userVars, last_check_time>>

SpecFrame == InitFrame /\ [][NextFrame]_vars

\* the users' commands and messages, and the loop's deliveries
NextSend ==
    \/ /\ \E chat_id \in ChatIds : start_command(chat_id)
       /\ UNCHANGED <<alertVars, storeVars, call, obsLog, taVars, botVars,
                      last_check_time>>
    \/ /\ \E chat_id \in ChatIds, text \in Texts : handle_message(chat_id, text)
       /\ UNCHANGED <<alertVars, storeVars, call, obsLog, taVars, botVars,
                      last_check_time>>
    \/ /\ \E type \in NotificationTypes : send_notification(type)
       /\ UNCHANGED <<alertVars, storeVars, call, obsLog, taVars, botVars,
                      last_check_time>>
    \/ /\ \E delivered \in BOOLEAN : send_next(delivered)
       /\ UNCHANGED <<alertVars, storeVars, call, obsLog, taVars, botVars,
                      last_check_time>>
    \/ /\ send_return
       /\ UNCHANGED <<alertVars, storeVars, call, obsLog, taVars, botVars,
                      last_check_time>>

SpecSend == Init /\ [][NextSend]_vars

\* end-of-day reports asked for one after another
NextReport == \E in \in ReportInputs : eod_report(in)

SpecReport == Init /\ [][NextReport]_vars

\* the history filled and read back
NextRecent ==
    \/ /\ \E notification \in Submissions(now),
             write \in {"ok", "open_fails", "dump_fails"} :
             add_notification(notification, write)
       /\ UNCHANGED <<taVars, userVars, botVars, last_check_time>>
    \/ /\ \E limit \in RecentLimits : get_recent_notifications(limit)
       /\ UNCHANGED <<taVars, userVars, botVars, last_check_time>>

SpecRecent == Init /\ [][NextRecent]_vars

(***************************************************************************)
(* TelegramBot.run_monitoring_loop and report_command                      *)
(***************************************************************************)
\* current_time = datetime.now(); data = fetch_live_data(); after the first
\* iteration the loop has slept for CHECK_INTERVAL at least.  Without data
\* the checks are skipped.
loop_poll(t, data) ==
    /\ pc \in {"start", "sleep"}
    /\ Stamp(t) >= Stamp(clock) + (IF pc = "sleep" THEN CheckIntervalMinutes ELSE 0)
    /\ clock' = t
    /\ monitor_current_price' = IF data = None THEN monitor_current_price ELSE data
    /\ cycle' = [time |-> t, data |-> data,
                 pre |-> IF data = None THEN Some(AlertState) ELSE None,
                 raised |-> FALSE,
                 after_failure |-> cycle.raised,
                 eod |-> None]
    /\ pc' = IF data = None THEN "finish" ELSE "price"
    /\ UNCHANGED <<alertVars, storeVars, call, obsLog, taVars, userVars, last_check_time,
                   eod_report_time, last_eod_report_date, pending,
                   eod_generated, interrupted, reports, on_demand>>

\* price_notification = check_price_movement(self.gold_monitor)
loop_price ==
    /\ pc = "price"
    /\ pending = <<>>
    /\ check_price_movement(monitor_current_price)
    /\ pending' = LET ret == PriceMovement(last_price, monitor_current_price).ret
                  IN  IF ret = None THEN <<>> ELSE <<ret[1]>>
    /\ pc' = "signal"
    /\ UNCHANGED <<taVars, userVars, last_check_time, clock, eod_report_time,
                   monitor_current_price, last_eod_report_date, cycle,
                   eod_generated, interrupted, reports, on_demand>>

\* signal_notification = check_technical_signals(ta)
loop_signal(ta) ==
    /\ pc = "signal"
    /\ pending = <<>>
    /\ check_technical_signals(ta)
    /\ pending' = LET ret == TechnicalSignals(last_signal, ta).ret
                  IN  IF ret = None THEN <<>> ELSE <<ret[1]>>
    /\ pc' = "news"
    /\ UNCHANGED <<taVars, userVars, last_check_time, clock, eod_report_time,
                   monitor_current_price, last_eod_report_date, cycle,
                   eod_generated, interrupted, reports, on_demand>>

\* news_notifications = check_news(self.news_monitor)
loop_news(news) ==
    /\ pc = "news"
    /\ pending = <<>>
    /\ check_news(news)
    /\ pending' = NewsCheck(last_news_ids, news).ret
    /\ pc' = "eod"
    /\ UNCHANGED <<taVars, userVars, last_check_time, clock, eod_report_time,
                   monitor_current_price, last_eod_report_date, cycle,
                   eod_generated, interrupted, reports, on_demand>>

\* add_notification(notification); send_notification(notification), for the
\* events of the step before; the write succeeds whenever json can encode
\* the history
loop_deliver ==
    /\ pc \in {"signal", "news", "eod", "finish"}
    /\ pending # <<>>
    /\ \E write \in {"ok", "dump_fails"} :
          /\ write = "ok" \/ "ok" \notin
                WriteOutcomes(LastHundred(Appended(notifications_history,
                                                   Head(pending))))
          /\ add_notification(Some(Head(pending)), write)
    /\ pending' = Tail(pending)
    /\ UNCHANGED <<taVars, userVars, last_check_time, pc, clock, eod_report_time,
                   monitor_current_price, last_eod_report_date, cycle,
                   eod_generated, interrupted, reports, on_demand>>

\* the test of the report time and, when it passes, generate_eod_report
loop_eod ==
    /\ pc = "eod"
    /\ pending = <<>>
    /\ LET due == EodDue(cycle.time, eod_report_time, last_eod_report_date) IN
       /\ cycle' = [cycle EXCEPT !.eod =
                       Some([last |-> last_eod_report_date, fired |-> due,
                             after_on_demand |-> cycle.time.day \in on_demand])]
       /\ pending' = IF due
                     THEN <<generate_eod_report(monitor_current_price[1],
                                                cycle.time.day, now)>>
                     ELSE <<>>
       /\ eod_generated' = IF due THEN Append(eod_generated, cycle.time.day)
                           ELSE eod_generated
    /\ pc' = "finish"
    /\ UNCHANGED <<alertVars, storeVars, call, obsLog, taVars, userVars, last_check_time,
                   clock, eod_report_time, monitor_current_price,
                   last_eod_report_date, interrupted, reports, on_demand>>

\* last_eod_report_date = current_time.date() after a report;
\* self.notifier.last_check_time = current_time, with or without data
loop_finish ==
    /\ pc = "finish"
    /\ pending = <<>>
    /\ last_eod_report_date' =
          IF cycle.eod # None /\ cycle.eod[1].fired THEN Some(cycle.time.day)
          ELSE last_eod_report_date
    /\ last_check_time' = Some(cycle.time)
    /\ pc' = "sleep"
    /\ UNCHANGED <<alertVars, storeVars, call, obsLog, taVars, userVars, clock,
                   eod_report_time, monitor_current_price, pending, cycle,
                   eod_generated, interrupted, reports, on_demand>>

\* a call of the step about to run raises before it assigns anything
loop_raises ==
    /\ pc \in {"price", "signal", "news", "eod"}
    /\ pending = <<>>
    /\ cycle' = [cycle EXCEPT !.raised = TRUE]
    /\ pc' = LoopAfter("Exception")
    /\ UNCHANGED <<alertVars, storeVars, call, obsLog, taVars, userVars, last_check_time,
                   clock, eod_report_time, monitor_current_price,
                   last_eod_report_date, pending, eod_generated, interrupted,
                   reports, on_demand>>

\* Ctrl-C while the loop sleeps
interrupt ==
    /\ pc = "sleep"
    /\ interrupted' = TRUE
    /\ pc' = LoopAfter("KeyboardInterrupt")
    /\ UNCHANGED <<alertVars, storeVars, call, obsLog, taVars, userVars, last_check_time,
                   clock, eod_report_time, monitor_current_price,
                   last_eod_report_date, pending, cycle, eod_generated,
                   reports, on_demand>>

\* /report, handled by the updater's thread while the bot runs
report_command(data) ==
    /\ pc # "stopped"
    /\ reports < MaxReports
    /\ reports' = reports + 1
    /\ monitor_current_price' = IF data = None THEN monitor_current_price ELSE data
    /\ call' = [op |-> "report_command", arg |-> data, pre |-> None,
                obs |-> None, seen |-> {},
                ret |-> IF data = None THEN None
                        ELSE Some(generate_eod_report(data[1], clock.day, now)),
                io |-> "none"]
    /\ last_eod_report_date' = AfterReportCommand(last_eod_report_date, clock.day)
    /\ on_demand' = IF data = None THEN on_demand ELSE on_demand \cup {clock.day}
    /\ UNCHANGED <<alertVars, storeVars, obsLog, taVars, userVars, last_check_time, pc,
                   clock, eod_report_time, pending, cycle, eod_generated,
                   interrupted>>

InitLoop ==
    /\ NotifierInit
    /\ TaInit
    /\ BotInit
    /\ eod_report_time \in EodReportTimes

NextLoop ==
    \/ \E t \in Clocks, data \in FetchedData : loop_poll(t, data)
    \/ loop_price
    \/ \E ta \in LoopSignalInputs : loop_signal(ta)
    \/ \E news \in LoopNewsFrames : loop_news(news)
    \/ loop_deliver
    \/ loop_eod
    \/ loop_finish
    \/ loop_raises
    \/ interrupt
    \/ \E data \in FetchedData : report_command(data)

SpecLoop == InitLoop /\ [][NextLoop]_vars

\* the loop of a bot started over a history file that an earlier run, or
\* anything else, left
LoopStoredFiles == {FileNotAList, FileList(StoredList(1))}

InitLoopStored ==
    /\ last_price = None
    /\ last_signal = None
    /\ last_news_ids = {}
    /\ last_check_time = None
    /\ history_file \in LoopStoredFiles
    /\ notifications_history = LoadedHistory(history_file).list
    /\ history_is_list = LoadedHistory(history_file).is_list
    /\ now = Len(notifications_history) + 1
    /\ adds = 0
    /\ restarts = 0
    /\ write_failed = {}
    /\ call = NoCall
    /\ observed = NothingObserved
    /\ news_seen = {}
    /\ TaInit
    /\ BotInit
    /\ eod_report_time = [hour |-> DefaultEodHour, minute |-> DefaultEodMinute]

SpecLoopStored == InitLoopStored /\ [][NextLoop]_vars

\* what a handler's fetch_live_data returns while the loop is in a cycle:
\* None, or a frame that ends with a later quote than the loop's
CommandFetches == {None, Some(20100)}

\* /price, handled by the updater's thread: data = fetch_live_data(), which
\* stores the frame and its last close in the shared GoldPriceMonitor; the
\* reply is built from the monitor afterwards
price_command(data) ==
    /\ pc # "stopped"
    /\ monitor_current_price' = IF data = None THEN monitor_current_price ELSE data
    /\ UNCHANGED <<alertVars, storeVars, call, obsLog, taVars, userVars,
                   last_check_time, pc, clock, eod_report_time,
                   last_eod_report_date, pending, cycle, eod_generated,
                   interrupted, reports, on_demand>>

\* the loop with the /price and /report handlers running beside it
NextHandlers ==
    \/ NextLoop
    \/ \E data \in CommandFetches : price_command(data)

SpecHandlers == InitLoop /\ [][NextHandlers]_vars

\* the times a poll of a loop that runs all day can fall on, in steps of
\* five minutes
DayClocks ==
    [day : 1..MaxDays, minute : {m \in 0..(24 * 60 - 1) : m % 5 = 0}]

\* current_time = datetime.now(); data = fetch_live_data(), of a loop whose
\* fetches succeed and whose cycles take less than CHECK_INTERVAL: the poll
\* comes CHECK_INTERVAL, and less than twice CHECK_INTERVAL, after the one
\* before
loop_poll_timely(t) ==
    /\ Stamp(t) - Stamp(clock) < 2 * CheckIntervalMinutes
    /\ loop_poll(t, Some(20000))

\* the bot started at midnight with the default report time
InitDaily ==
    /\ NotifierInit
    /\ TaInit
    /\ BotInit
    /\ eod_report_time = [hour |-> DefaultEodHour, minute |-> DefaultEodMinute]

\* the cycles of a quiet market: the same summary and the same headline at
\* every poll
NextDaily ==
    \/ \E t \in DayClocks : loop_poll_timely(t)
    \/ loop_price
    \/ loop_signal([signals |-> "ok", summary |-> Some("BUY")])
    \/ loop_news(<<[title |-> "Fed", source |-> "Kitco",
                    impact |-> ImpactThresholdTenths]>>)
    \/ loop_deliver
    \/ loop_eod
    \/ loop_finish

\* the loop is one sequential thread that is never stopped: whatever step it
\* can take next, it takes
SpecDaily == InitDaily /\ [][NextDaily]_vars /\ WF_vars(NextDaily)

(***************************************************************************)
(* Properties of the alert channels (specification Spec).                  *)
(***************************************************************************)
PriceCall == call.op = "check_price_movement" /\ call.arg # None
SignalCall ==
    /\ call.op = "check_technical_signals"
    /\ call.arg[1].signals = "ok"
    /\ call.arg[1].summary # None
NewsCall == call.op = "check_news" /\ call.arg # <<>>

\* ids of the high-impact rows of the frame the last check_news fetched
CallNewsIds ==
    {call.arg[i].title \o "|" \o call.arg[i].source :
        i \in {j \in 1..Len(call.arg) : call.arg[j].impact >= ImpactThresholdTenths}}

\* C1: on a seeded price channel a call that observes a price returns a
\* PRICE event exactly when |current - last_price| / last_price * 100 is at
\* least the threshold of 0.5 (boundary included), and none otherwise.
C1_PriceEventIffThreshold ==
    (PriceCall /\ call.pre # None) =>
        /\ call.ret # None <=>
              Abs(call.arg[1] - call.pre[1]) * 1000
                  >= PriceChangeThresholdTenths * call.pre[1]
        /\ call.ret # None => call.ret[1].type = "price"

\* a move of exactly 0.5 percent (200.00 -> 201.00) returned an event
C1_Witness ==
    /\ PriceCall
    /\ call.pre = Some(20000)
    /\ call.arg = Some(20100)
    /\ call.ret # None

\* C2: after every call that observes a price p, last_price is p, event or
\* not; so the baseline of the next comparison is always the price observed
\* by the immediately preceding call.
C2_BaselineRebasedEveryCall ==
    /\ PriceCall => last_price = call.arg
    /\ last_price = observed.price

\* a sub-threshold move (200.00 -> 200.50) returned nothing and rebased
C2_Witness ==
    /\ PriceCall
    /\ call.pre = Some(20000)
    /\ call.arg = Some(20050)
    /\ call.ret = None
    /\ last_price = Some(20050)

\* C3: once the signal channel is seeded, a call returns a SIGNAL event
\* exactly when the summary's type differs from the type observed by the
\* preceding call and is not NEUTRAL.
C3_SignalEventIffChangedToNonNeutral ==
    (SignalCall /\ call.obs # None) =>
        /\ call.ret # None <=>
              /\ call.arg[1].summary[1] # call.obs[1]
              /\ call.arg[1].summary[1] # "NEUTRAL"
        /\ call.ret # None =>
              /\ call.ret[1].type = "signal"
              /\ call.ret[1].data.signal_type = call.arg[1].summary[1]

\* SELL entered from NEUTRAL returned an event
C3_Witness ==
    /\ SignalCall
    /\ call.obs = Some("NEUTRAL")
    /\ call.arg[1].summary = Some("SELL")
    /\ call.ret # None

\* C4: after every call that obtains a summary, last_signal is that
\* summary's signal_type, event or not, NEUTRAL included.
C4_LastSignalUpdatedEveryCall ==
    SignalCall => last_signal = call.arg[1].summary

\* NEUTRAL entered from BUY: no event, last_signal is NEUTRAL
C4_Witness ==
    /\ SignalCall
    /\ call.pre = Some("BUY")
    /\ call.arg[1].summary = Some("NEUTRAL")
    /\ call.ret = None
    /\ last_signal = Some("NEUTRAL")

\* events of the last check_news carrying article a
EventsFor(a) ==
    {i \in 1..Len(call.ret) :
        /\ call.ret[i].data.title = a.title
        /\ call.ret[i].data.source = a.source
        /\ call.ret[i].data.impact = a.impact}
RowsOf(a) == {i \in 1..Len(call.arg) : call.arg[i] = a}

C6_ReappearingIdReemitted ==
    (NewsCall /\ call.obs # None) =>
        \A id \in CallNewsIds :
            (id \in call.seen /\ id \notin call.obs[1]) =>
                \E i \in 1..Len(call.ret) :
                    call.ret[i].data.title \o "|" \o call.ret[i].data.source = id

\* C7: after every check_news call that fetched news, last_news_ids is the
\* set of ids of that call's high-impact items.
C7_LastNewsIdsReplacedEveryCall ==
    NewsCall => last_news_ids = CallNewsIds

\* C8: on a fresh NotificationSystem the first observing call of each check
\* returns no event and stores the observation as the channel's state.
C8_FirstCallSeedsSilently ==
    /\ (PriceCall /\ call.obs = None) =>
           call.ret = None /\ last_price = call.arg
    /\ (SignalCall /\ call.obs = None) =>
           call.ret = None /\ last_signal = call.arg[1].summary
    /\ (NewsCall /\ call.obs = None) =>
           call.ret = <<>> /\ last_news_ids = CallNewsIds

\* price and signal were seeded and the first news call stored two ids
C8_Witness ==
    /\ last_price # None
    /\ last_signal # None
    /\ NewsCall
    /\ call.obs = None
    /\ call.ret = <<>>
    /\ Cardinality(last_news_ids) = 2

(***************************************************************************)
(* Properties of the notification history (specification SpecHistory).     *)
(***************************************************************************)
AddCall == call.op = "add_notification"

\* C9: the in-memory notification history never holds more than 100
\* entries; at the bound an append discards the oldest entry first.
C9_HistoryNeverExceedsLimit ==
    /\ Len(notifications_history) <= HistoryLimit
    /\ (AddCall /\ call.ret = Some(TRUE) /\ Len(call.pre[1]) = HistoryLimit) =>
           notifications_history = Append(Tail(call.pre[1]), call.arg[1])

\* C10: after an add_notification whose write succeeds the file holds
\* exactly the most recent min(n, 100) entries of the in-memory history, in
\* append order, and a NotificationSystem constructed next loads exactly
\* that sequence.
C10_PersistedIsMostRecentHundred ==
    /\ (AddCall /\ call.io = "ok") =>
           LET n == Len(notifications_history)
               m == IF n < HistoryLimit THEN n ELSE HistoryLimit
           IN  /\ history_file.state = "list"
               /\ Len(history_file.text) = m
               /\ \A i \in 1..m :
                     JsonDecode(history_file.text[i]) =
                         notifications_history[n - m + i]
    /\ (call.op = "construct" /\ call.io = "ok") =>
           LET before == call.pre[1]
               n == Len(before)
               m == IF n < HistoryLimit THEN n ELSE HistoryLimit
           IN  /\ history_is_list
               /\ Len(notifications_history) = m
               /\ \A i \in 1..m : notifications_history[i] = before[n - m + i]

\* 101 entries in memory, the write succeeded, and the next instance loaded
\* the last 100 of them
C10_Witness ==
    /\ call.op = "construct"
    /\ call.io = "ok"
    /\ Len(call.pre[1]) = HistoryLimit + 1
    /\ Len(notifications_history) = HistoryLimit
    /\ notifications_history[1].timestamp = 2

\* entries of the file, as the dicts a load would give
PersistedEvents ==
    {JsonDecode(history_file.text[i]) : i \in 1..Len(history_file.text)}
MostRecentHundred ==
    {notifications_history[i] :
        i \in {j \in 1..Len(notifications_history) :
                  j > Len(notifications_history) - HistoryLimit}}

\* C11: a failed history write leaves the event in the in-memory history and
\* the call still returns normally; the next add_notification whose write
\* succeeds persists every event whose write had failed and that is still
\* among the 100 most recent.
C11_FailedWriteKeptAndReconciled ==
    /\ (AddCall /\ call.io \in {"open_fails", "dump_fails"}) =>
           /\ call.ret = Some(TRUE)
           /\ notifications_history = Append(call.pre[1], call.arg[1])
    /\ (AddCall /\ call.io = "ok") =>
           \A e \in write_failed :
               e \in MostRecentHundred => e \in PersistedEvents

\* a write failed over a full history, and the next add wrote the event
\* that had failed together with its own
C11_Witness ==
    /\ AddCall
    /\ call.io = "ok"
    /\ Len(notifications_history) = HistoryLimit + 2
    /\ write_failed = {notifications_history[HistoryLimit + 1]}
    /\ notifications_history[HistoryLimit + 1] \in PersistedEvents

\* C12: construction over missing or malformed storage (unreadable, invalid
\* JSON, or not a list) yields an empty history to which add_notification
\* can append.
C12_MalformedStorageGivesEmptyHistory ==
    /\ (call.op \in {"init", "construct"} /\ history_file.state # "list") =>
           notifications_history = <<>> /\ history_is_list
    /\ (AddCall /\ call.arg # None) =>
           /\ call.ret = Some(TRUE)
           /\ notifications_history = Append(call.pre[1], call.arg[1])

(***************************************************************************)
(* Missing inputs (specification Spec).                                    *)
(***************************************************************************)
\* C17: a check whose input is missing (no current price; no signals frame,
\* an empty one or no summary; no news or no high-impact row) returns no
\* event and leaves the retained state of its channel as it was.
C17_MissingInputWithholdsAndRetains ==
    /\ (call.op = "check_price_movement" /\ call.arg = None) =>
           call.ret = None /\ last_price = call.pre
    /\ (call.op = "check_technical_signals" /\ ~SignalCall) =>
           call.ret = None /\ last_signal = call.pre
    /\ (call.op = "check_news" /\ CallNewsIds = {}) =>
           call.ret = <<>> /\ last_news_ids = call.pre[1]

C17_Witness ==
    /\ call.op = "check_news"
    /\ call.arg # <<>>
    /\ CallNewsIds = {}
    /\ call.pre[1] # {}
    /\ last_news_ids = call.pre[1]
    /\ last_price # None
    /\ last_signal # None

(***************************************************************************)
(* Properties of the monitoring loop (specification SpecLoop).             *)
(***************************************************************************)
\* the time test of the scheduler passes at t
InReportWindow(t) ==
    Hour(t) = eod_report_time.hour /\ Minute(t) >= eod_report_time.minute

\* t is at or after the configured report time of its date
AtOrAfterReportTime(t) ==
    t.minute >= eod_report_time.hour * 60 + eod_report_time.minute

\* C13: whatever the polls, at most one scheduled end-of-day report is
\* generated per calendar date.
C13_AtMostOneScheduledReportPerDate ==
    \A i, j \in 1..Len(eod_generated) :
        eod_generated[i] = eod_generated[j] => i = j

\* a later poll of the same date inside the report window generates nothing
C13_Witness ==
    /\ cycle.eod # None
    /\ InReportWindow(cycle.time)
    /\ cycle.eod[1].last = Some(cycle.time.day)
    /\ ~cycle.eod[1].fired
    /\ \E i \in 1..Len(eod_generated) : eod_generated[i] = cycle.time.day
    /\ Len(eod_generated) >= 2

\* C14: a poll at or after the report time, on a date for which no report
\* has been produced, fires the scheduler, however late the poll is.
C14_FiresOnFirstPollAtOrAfterReportTime ==
    (/\ cycle.eod # None
     /\ AtOrAfterReportTime(cycle.time)
     /\ (cycle.eod[1].last = None \/ cycle.eod[1].last[1] < cycle.time.day)) =>
        cycle.eod[1].fired

\* C15: a /report is answered with an end-of-day event whenever the fetch
\* gave data, and handling it changes none of last_price, last_signal,
\* last_news_ids, the notification history and last_eod_report_date.
C15_OnDemandReportLeavesSchedulerAlone ==
    [][reports' # reports =>
          /\ <<last_price, last_signal, last_news_ids, notifications_history,
               last_eod_report_date>>' =
             <<last_price, last_signal, last_news_ids, notifications_history,
               last_eod_report_date>>
          /\ call'.arg # None =>
                (call'.ret # None /\ call'.ret[1].type = "eod")]_vars

\* the scheduled report of a date generated after a /report of that date
C15_Witness ==
    /\ cycle.eod # None
    /\ cycle.eod[1].fired
    /\ cycle.eod[1].after_on_demand
    /\ call.op = "add_notification"
    /\ call.arg[1].type = "eod"

\* C16: a cycle whose fetch returned no data leaves last_price, last_signal,
\* last_news_ids, last_check_time and the notification history as they were.
C16_NoDataCycleLeavesAlertState ==
    (pc = "sleep" /\ cycle.data = None) => AlertState = cycle.pre[1]

\* C18: an exception raised in a cycle leaves the loop about to sleep and
\* poll again; only an interrupt ends the loop.
C18_CycleFailureDoesNotEndLoop ==
    /\ pc = "stopped" => interrupted
    /\ (cycle.raised /\ ~interrupted) => pc = "sleep"

\* a cycle completed after one that raised
C18_Witness ==
    /\ cycle.after_failure
    /\ ~cycle.raised
    /\ pc = "sleep"
    /\ last_check_time = Some(cycle.time)

\* C30: a PRICE event carries the price observed by the call, the value
\* last_price had before the call, their difference, and that difference
\* over the previous price times 100.
C30_PriceEventCarriesBothPricesAndDeltas ==
    (PriceCall /\ call.ret # None) =>
        LET data == call.ret[1].data IN
        /\ data.current_price = call.arg[1]
        /\ data.previous_price = call.pre[1]
        /\ data.price_change = call.arg[1] - call.pre[1]
        /\ data.percent_change.den # 0
        /\ data.percent_change.num * call.pre[1] =
               (call.arg[1] - call.pre[1]) * 100 * data.percent_change.den

\* a fall from 201.50 to 200.00 reported
C30_Witness ==
    /\ PriceCall
    /\ call.ret # None
    /\ call.pre = Some(20150)
    /\ call.arg = Some(20000)
    /\ call.ret[1].data.price_change = -150

(***************************************************************************)
(* Properties of the signal aggregation (specification SpecSignals).       *)
(***************************************************************************)
SignalsRow == ta_signals[1][1]
Generated == ta_signals # None /\ ta_signals[1] # None

\* the sub-signals whose inputs are defined at the bar, by name
DefinedSubSignals ==
    (IF ta_data[1].row.rsi # NaN THEN {"RSI_Signal"} ELSE {})
        \cup {"MACD_Cross_Signal"}
        \cup (IF ta_data[1].row.ma20 # NaN /\ ta_data[1].row.ma50 # NaN
              THEN {"MA_Cross_Signal"} ELSE {})

RECURSIVE SumOver(_, _)
SumOver(row, names) ==
    IF names = {} THEN 0
    ELSE LET x == CHOOSE n \in names : TRUE
         IN  row[x] + SumOver(row, names \ {x})

\* C19: at every bar the composite Signal is the sum of the sub-signals
\* whose inputs are defined at the bar divided by their number; a
\* sub-signal with an undefined input is in neither the sum nor the count.
C19_SignalAveragesDefinedSubSignals ==
    Generated =>
        SignalsRow.Signal.num * Cardinality(DefinedSubSignals) =
            SumOver(SignalsRow, DefinedSubSignals) * SignalsRow.Signal.den

\* C20: with a series long enough for RSI and MACD but too short for the
\* moving averages, generate_signals still gives a composite Signal, the
\* mean of the RSI and MACD sub-signals.
C20_ShortSeriesStillGivesSignal ==
    (/\ ta_signals # None
     /\ ta_data # None
     /\ ta_data[1].len >= RsiPeriod + 1
     /\ ta_data[1].len >= MacdSlowPeriod + MacdSignalPeriod
     /\ ta_data[1].len < LongMaPeriod) =>
        /\ ta_signals[1] # None
        /\ SignalsRow.Signal.num * 2 =
              (SignalsRow.RSI_Signal + SignalsRow.MACD_Cross_Signal)
                  * SignalsRow.Signal.den

\* C21: where their inputs are defined the MACD sub-signal is +1 if
\* MACD > signal line and -1 otherwise, and the MA sub-signal is +1 if
\* MA20 > MA50 and -1 otherwise; a tie gives -1, never 0.
C21_CrossSignalsHaveNoNeutralZone ==
    Generated =>
        LET row == ta_data[1].row IN
        /\ SignalsRow.MACD_Cross_Signal =
               (IF row.macd > row.macd_signal THEN 1 ELSE -1)
        /\ (row.ma20 # NaN /\ row.ma50 # NaN) =>
               SignalsRow.MA_Cross_Signal =
                   (IF row.ma20[1] > row.ma50[1] THEN 1 ELSE -1)

SummaryReturned == ta_summary # None /\ ta_summary[1].ret # None
Summary == ta_summary[1].ret[1]
LastSignal == SignalsOf(ta_data)[1].Signal

\* C22: the summary's signal_type is BUY iff the last bar's Signal s is
\* above 0.2, SELL iff s is below -0.2 and NEUTRAL otherwise; the strength
\* is |s|; s is in [-1, 1] and the strength in [0, 1].
C22_SummaryClassifiesSignal ==
    SummaryReturned =>
        LET s == LastSignal
            strength == Summary.signal_strength
        IN  /\ s.den > 0 /\ -s.den <= s.num /\ s.num <= s.den
            /\ Summary.signal_type = "BUY" <=> s.num * 10 > 2 * s.den
            /\ Summary.signal_type = "SELL" <=> s.num * 10 < (-2) * s.den
            /\ Summary.signal_type \in {"BUY", "SELL", "NEUTRAL"}
            /\ strength.den > 0
            /\ strength.num * s.den = Abs(s.num) * strength.den
            /\ 0 <= strength.num /\ strength.num <= strength.den

\* a Signal of 1/3, one sub-signal of three, summarised as BUY
C22_Witness ==
    /\ SummaryReturned
    /\ LastSignal.num = 1
    /\ LastSignal.den = 3
    /\ Summary.signal_type = "BUY"

SupportsBelow ==
    IF ta_summary[1].levels = None THEN {}
    ELSE {ta_summary[1].levels[1].support[i] :
             i \in {j \in 1..Len(ta_summary[1].levels[1].support) :
                       ta_summary[1].levels[1].support[j] < ta_summary[1].close}}
ResistancesAbove ==
    IF ta_summary[1].levels = None THEN {}
    ELSE {ta_summary[1].levels[1].resistance[i] :
             i \in {j \in 1..Len(ta_summary[1].levels[1].resistance) :
                       ta_summary[1].levels[1].resistance[j] > ta_summary[1].close}}

\* C23: closest_support is the greatest support level strictly below the
\* current price whenever there is one and absent otherwise;
\* closest_resistance is the least resistance level strictly above it
\* whenever there is one and absent otherwise.
C23_ClosestLevels ==
    SummaryReturned =>
        /\ Summary.closest_support =
               (IF SupportsBelow = {} THEN None
                ELSE Some(CHOOSE x \in SupportsBelow :
                             \A y \in SupportsBelow : y <= x))
        /\ Summary.closest_resistance =
               (IF ResistancesAbove = {} THEN None
                ELSE Some(CHOOSE x \in ResistancesAbove :
                             \A y \in ResistancesAbove : x <= y))

\* C25: at the last bar of a strictly increasing close series of at least
\* 200 bars, MA20 > MA50 and the composite Signal is above 0.
C25_IncreasingSeriesGivesPositiveSignal ==
    (/\ Generated
     /\ ta_data[1].trend = "increasing"
     /\ ta_data[1].row.bar = ta_data[1].len - 1) =>
        /\ ta_data[1].row.ma20[1] > ta_data[1].row.ma50[1]
        /\ SignalsRow.Signal.num > 0

LevelsCall == call.op = "identify_support_resistance" /\ call.ret # None
\* bars with window bars on each side
Candidates(n, window) == {i \in 1..n : i - window >= 1 /\ i + window <= n}
Near(n, window, i) == {j \in 1..n : j # i /\ Abs(i - j) <= window}
SupportBars(f, window) ==
    {i \in Candidates(Len(f), window) :
        \A j \in Near(Len(f), window, i) : f[i].Low <= f[j].Low}
ResistanceBars(f, window) ==
    {i \in Candidates(Len(f), window) :
        \A j \in Near(Len(f), window, i) : f[i].High >= f[j].High}
\* the k-th bar of a set of bars, from the left
Kth(S, k) == CHOOSE i \in S : Cardinality({m \in S : m < i}) = k - 1

\* C24: identify_support_resistance(window=w) lists, from left to right and
\* with duplicates kept, the low of every bar that has w bars on each side
\* and whose low is <= the low of every bar within w positions of it, and
\* the high of every such bar under >= on the highs.
C24_LevelsAreWindowExtrema ==
    LevelsCall =>
        LET f == bars[1]
            support_bars == SupportBars(f, call.arg)
            resistance_bars == ResistanceBars(f, call.arg)
            support_levels == call.ret[1].support_levels
            resistance_levels == call.ret[1].resistance_levels
        IN  /\ Len(support_levels) = Cardinality(support_bars)
            /\ \A k \in 1..Len(support_levels) :
                   support_levels[k] = f[Kth(support_bars, k)].Low
            /\ Len(resistance_levels) = Cardinality(resistance_bars)
            /\ \A k \in 1..Len(resistance_levels) :
                   resistance_levels[k] = f[Kth(resistance_bars, k)].High

\* two supports at the same level, one of them tied with its neighbour, a
\* bar in range that is no support, and a resistance
C24_Witness ==
    /\ LevelsCall
    /\ LET f == bars[1]
           support_levels == call.ret[1].support_levels
       IN  /\ Len(support_levels) >= 2
           /\ support_levels[1] = support_levels[2]
           /\ \E i \in SupportBars(f, call.arg) : f[i].Low = f[i + 1].Low
           /\ Candidates(Len(f), call.arg) \ SupportBars(f, call.arg) # {}
           /\ call.ret[1].resistance_levels # <<>>

RsiCall == call.op = "calculate_rsi" /\ call.ret # None
\* the deltas in the rolling window that ends at bar i
WindowDeltas(i, period) == {k \in 2..i : k > i - period}
RECURSIVE SumOfGains(_, _)
SumOfGains(closes, S) ==
    IF S = {} THEN 0
    ELSE LET k == CHOOSE x \in S : TRUE
             d == closes[k] - closes[k - 1]
         IN  (IF d > 0 THEN d ELSE 0) + SumOfGains(closes, S \ {k})
RECURSIVE SumOfLosses(_, _)
SumOfLosses(closes, S) ==
    IF S = {} THEN 0
    ELSE LET k == CHOOSE x \in S : TRUE
             d == closes[k - 1] - closes[k]
         IN  (IF d > 0 THEN d ELSE 0) + SumOfLosses(closes, S \ {k})
Percentage(r) == r # NaN /\ r.den > 0 /\ 0 <= r.num /\ r.num <= 100 * r.den

\* C27: at every bar with a full window, with the gains and the losses
\* summed plainly over the window's deltas, RSI is 100 * gains / (gains +
\* losses), within 0..100, when the mean loss is above 0, and is 100 when the
\* mean loss is 0 and the mean gain is above 0.
C27_RsiRange ==
    RsiCall =>
        LET closes == Closes(bars[1])
            period == call.arg
            rsi == call.ret[1]
        IN  \A i \in period..Len(closes) :
                LET gains == SumOfGains(closes, WindowDeltas(i, period))
                    losses == SumOfLosses(closes, WindowDeltas(i, period))
                IN  /\ losses > 0 =>
                           /\ Percentage(rsi[i])
                           /\ rsi[i] = Rat(100 * gains, gains + losses)
                    /\ (losses = 0 /\ gains > 0) => rsi[i] = RatOf(100)

\* a series with a bar of gains only (RSI 100) and a bar of gains and losses
\* (RSI strictly between 0 and 100)
C27_Witness ==
    /\ RsiCall
    /\ LET closes == Closes(bars[1])
           period == call.arg
           rsi == call.ret[1]
       IN  /\ \E i \in period..Len(closes) :
                  /\ SumOfLosses(closes, WindowDeltas(i, period)) = 0
                  /\ SumOfGains(closes, WindowDeltas(i, period)) > 0
                  /\ rsi[i] = RatOf(100)
           /\ \E i \in period..Len(closes) :
                  /\ SumOfLosses(closes, WindowDeltas(i, period)) > 0
                  /\ SumOfGains(closes, WindowDeltas(i, period)) > 0
                  /\ rsi[i].num > 0 /\ rsi[i].num < 100 * rsi[i].den

BarCount == Len(bars[1])

\* C28: on a frame with fewer than period + 1 bars calculate_rsi returns
\* None, with fewer than slow + signal bars calculate_macd returns None, with
\* fewer than max(periods) bars calculate_moving_averages returns None, and
\* with fewer than 2 * window bars identify_support_resistance returns None.
C28_ShortSeriesGivesNone ==
    bars # None =>
        /\ (call.op = "calculate_rsi" /\ BarCount < call.arg + 1)
               => call.ret = None
        /\ (call.op = "calculate_macd"
                /\ BarCount < call.arg.slow_period + call.arg.signal_period)
               => call.ret = None
        /\ (call.op = "calculate_moving_averages"
                /\ \E k \in 1..Len(call.arg) : BarCount < call.arg[k])
               => call.ret = None
        /\ (call.op = "identify_support_resistance"
                /\ BarCount < 2 * call.arg)
               => call.ret = None

\* calculate_macd on a frame that covers the slow period but not the signal
\* period on top of it
C28_Witness ==
    /\ bars # None
    /\ call.op = "calculate_macd"
    /\ BarCount >= call.arg.slow_period
    /\ BarCount < call.arg.slow_period + call.arg.signal_period
    /\ call.ret = None

EmittedIds ==
    {call.ret[i].data.title \o "|" \o call.ret[i].data.source :
        i \in 1..Len(call.ret)}

\* C31: once a check_news call has observed a frame, with or without a
\* high-impact item in it, every later call returns a NEWS event for each
\* high-impact id that was not in the previously observed set.
C31_SeededByFirstObservation ==
    (NewsCall /\ call.obs # None) =>
        \A id \in CallNewsIds : id \notin call.obs[1] => id \in EmittedIds

(***************************************************************************)
(* Properties of the end-of-day report (specification SpecReport)          *)
(***************************************************************************)
ReportCall == call.op = "generate_eod_report"

\* C32: generate_eod_report returns an EOD event whichever of the current
\* price, the price change, the signal summary and the sentiment are absent,
\* and an absent input is an absent field of the event's data.
C32_ReportToleratesAbsentInputs ==
    ReportCall =>
        /\ ~call.ret.raises
        /\ LET data == call.ret.report[1].data
           IN  /\ call.ret.report[1].type = "eod"
               /\ data.current_price = call.arg.current_price
               /\ data.price_change = None <=> call.arg.change = None
               /\ data.percent_change = None <=> call.arg.change = None
               /\ data.signal = None <=> call.arg.summary = None
               /\ data.sentiment = None <=> call.arg.sentiment = None

(***************************************************************************)
(* Properties of get_recent_notifications (specification SpecRecent)       *)
(***************************************************************************)
RecentCall == call.op = "get_recent_notifications"

\* C33: get_recent_notifications(limit) returns the last min(limit, n)
\* entries of the n-entry history, in append order: nothing for limit 0 or
\* an empty history, never more than limit entries.
C33_RecentIsLastMinLimitN ==
    RecentCall =>
        LET n == Len(call.pre[1])
            k == Min(call.arg, n)
        IN  /\ Len(call.ret) <= call.arg
            /\ call.ret = SubSeq(call.pre[1], n - k + 1, n)

(***************************************************************************)
(* Properties of the loop's bookkeeping (specification SpecLoopStored)     *)
(***************************************************************************)
HistoryEntries ==
    {notifications_history[i] : i \in 1..Len(notifications_history)}

\* C34: when the loop hands an event to delivery, the add_notification call
\* before it has put the event into the notification history.
C34_DeliveredEventsAreInHistory ==
    (AddCall /\ call.arg # None) => call.arg[1] \in HistoryEntries

(***************************************************************************)
(* Frame of the checks (specification SpecLoop)                            *)
(***************************************************************************)
\* the step is the loop's call of the check made at position at
Called(op, at, next) == pc = at /\ pc' = next /\ call'.op = op

\* C35: a check_price_movement call leaves last_signal, last_news_ids and
\* the notification history as they were, a check_technical_signals call
\* leaves last_price, last_news_ids and the history, a check_news call leaves
\* last_price, last_signal and the history; the history changes in
\* add_notification calls only.
C35_ChecksChangeOwnChannelOnly ==
    [][/\ Called("check_price_movement", "price", "signal") =>
              UNCHANGED <<last_signal, last_news_ids, notifications_history,
                          history_file>>
       /\ Called("check_technical_signals", "signal", "news") =>
              UNCHANGED <<last_price, last_news_ids, notifications_history,
                          history_file>>
       /\ Called("check_news", "news", "eod") =>
              UNCHANGED <<last_price, last_signal, notifications_history,
                          history_file>>
       /\ notifications_history' # notifications_history =>
              (adds' = adds + 1 /\ call'.op = "add_notification")]_vars

\* a check_news call that replaced the ids while the price, the signal and
\* a history entry were there
C35_Witness ==
    /\ call.op = "check_news"
    /\ call.pre # Some(last_news_ids)
    /\ last_price # None
    /\ last_signal # None
    /\ notifications_history # <<>>

\* C36: a channel that holds a value keeps holding one: no step takes
\* last_price or last_signal from a value back to None, and no step takes
\* last_news_ids from a non-empty set back to the empty set.
C36_SeededChannelsStaySeeded ==
    [][/\ last_price # None => last_price' # None
       /\ last_signal # None => last_signal' # None
       /\ last_news_ids # {} => last_news_ids' # {}]_vars

\* all three channels hold a value after a price check that found no price
C36_Witness ==
    /\ call.op = "check_price_movement"
    /\ call.arg = None
    /\ call.pre # None
    /\ last_price = call.pre
    /\ last_signal # None
    /\ last_news_ids # {}

\* C37: the price handed to check_price_movement in a cycle is the last
\* close of the frame that the cycle's own fetch_live_data returned, whatever
\* the command handlers fetched in between.
C37_CheckedPriceIsCyclesFetch ==
    (pc = "signal" /\ call.op = "check_price_movement") =>
        call.arg = cycle.data

\* C38: with the report time 16:00 and polls that follow each other by the
\* interval and less than twice the interval, all of them with data, a
\* scheduled report is eventually generated for every date (eod_generated
\* only grows, so the reports of all dates are eventually all in it).
C38_ReportOnEveryDate ==
    <>(\A d \in 1..MaxDays :
          \E i \in 1..Len(eod_generated) : eod_generated[i] = d)

\* the report of the last date was generated on a poll after the exact minute
C38_Witness ==
    /\ Len(eod_generated) = MaxDays
    /\ cycle.eod # None
    /\ cycle.eod[1].fired
    /\ Minute(cycle.time) > eod_report_time.minute

\* the scheduled report of date is an entry of the notification history
ReportRecorded(date) ==
    \E e \in HistoryEntries : e.type = "eod" /\ e.data.date = date

\* C39: last_eod_report_date holds a date only when the scheduled report of
\* that date has been generated, is in the notification history and has been
\* handed to delivery, so a cycle whose report generation raised marks
\* nothing; and a poll inside the report window after a cycle that raised
\* generates the report unless the date is marked already.
C39_DateMarkedAfterReportRecorded ==
    /\ last_eod_report_date # None =>
          /\ \E i \in 1..Len(eod_generated) :
                eod_generated[i] = last_eod_report_date[1]
          /\ ReportRecorded(last_eod_report_date[1])
    /\ (pc = "sleep" /\ cycle.eod # None /\ cycle.eod[1].fired) =>
          (pending = <<>> /\ last_eod_report_date = Some(cycle.time.day))
    /\ (/\ cycle.eod # None
        /\ cycle.after_failure
        /\ InReportWindow(cycle.time)
        /\ ~cycle.eod[1].fired) =>
          cycle.eod[1].last = Some(cycle.time.day)

====
